---- MODULE Spec2Model ----
(***************************************************************************)
(* Model of the misskey-reactions image pipeline (image.go, game.go,       *)
(* misskey.go): the asset cache behind its RWMutex, the per-reaction load  *)
(* task (cache check, URL resolution, fetch and decode, cache insertion,   *)
(* assignment to the display object) and the Twemoji URL derivation.       *)
(*                                                                         *)
(* Text is modelled as follows: a reaction Name and a fallback text are    *)
(* sequences of Unicode code points, a URL is a TLA+ string.               *)
(***************************************************************************)
EXTENDS Integers, Sequences, FiniteSets, TLC

VARIABLES
    objects,      \* g.objects: the display objects, in spawn order
    task,         \* task[i]: the goroutine started for objects[i] (locals and position)
    cache,        \* im.cache: map from reaction Name to the decoded asset
    cacheMutex,   \* im.cacheMutex: [readers |-> set of tasks, writer |-> task or 0]
    calls,        \* calls[i]: the outbound calls task i has made so far (instrumentation)
    emojiIn,      \* argument of a stand-alone emojiToTwemojiURL call
    twemojiOut,   \* its result ("" while the call has not been made)
    history,      \* the Get and Set calls a single caller has completed, in order
    imageIn,      \* argument of a stand-alone decoder or compositor call
    imageOut      \* its result (NotCalled while the call has not been made)

\* the variables of the stand-alone cache and decoder calls
standalone == <<history, imageIn, imageOut>>

vars == <<objects, task, cache, cacheMutex, calls, emojiIn, twemojiOut,
          history, imageIn, imageOut>>

-----------------------------------------------------------------------------
(* Bounds of the model *)

\* number of reaction events taken from the feed
MaxEvents == 2

\* number of reaction events taken from a feed that repeats its events
MaxRepeats == 3

\* length of the symbols given to a stand-alone emojiToTwemojiURL call
MaxEmojiLen == 3

\* number of Get and Set calls the single caller makes
MaxCalls == 4

\* width in pixels of the canvas of an animation (rasters are one pixel high)
CanvasWidth == 2

\* number of sub-images of a GIF
MaxGifFrames == 3

\* number of frames of an APNG, the default image included
MaxApngFrames == 3

\* number of frames of an animated WebP
MaxWebpFrames == 2

\* number of sub-images of a GIF when only its delays vary
MaxDelayFrames == 5

\* number of ticks an animation is played for
MaxTicks == 250

\* number of chunks of a PNG stream between IHDR and IEND
MaxChunks == 3

\* number of calls of Game.Update while loads are running
MaxUpdates == 3

\* number of calls of MisskeyClient.Connect
MaxConnects == 3

\* number of events waiting in reactionChan
MaxQueued == 2

\* width and height of the window, in pixels
WindowWidth == 60

WindowHeight == 40

\* greatest value rand.Intn draws for the lifetime of an object
MaxLifetimeDraw == 0

\* greatest component of the velocity of an object, in half pixels per tick
MaxSpeedDraw == 2

-----------------------------------------------------------------------------
(* Program constants *)

maxObjects == 100

minLifetime == 300

maxLifetime == 900

objectHalfSize == 36

\* minObjectSpeed = 0.5 and maxObjectSpeed = 2.0, in half pixels per tick
minObjectSpeed == 1

maxObjectSpeed == 4

StatusOK == 200

\* ':' as a byte and as a rune
Colon == 58

\* the variation selector U+FE0F
VariationSelector == 65039

TwemojiPrefix == "https://cdn.jsdelivr.net/gh/twitter/twemoji@latest/assets/72x72/"

TwemojiSuffix == ".png"

-----------------------------------------------------------------------------
(* Strings *)

\* the UTF-8 encoding of one rune (Go strings are byte strings)
Utf8(r) ==
    IF r < 128 THEN <<r>>
    ELSE IF r < 2048 THEN <<192 + (r \div 64), 128 + (r % 64)>>
    ELSE IF r < 65536 THEN
        <<224 + (r \div 4096), 128 + ((r \div 64) % 64), 128 + (r % 64)>>
    ELSE <<240 + (r \div 262144), 128 + ((r \div 4096) % 64),
           128 + ((r \div 64) % 64), 128 + (r % 64)>>

RECURSIVE Bytes(_)
\* the bytes of a string given by its runes: what len(s) and s[i] see
Bytes(s) == IF s = <<>> THEN <<>> ELSE Utf8(Head(s)) \o Bytes(Tail(s))

RECURSIVE TrimLeft(_, _)
TrimLeft(s, cutset) ==
    IF s # <<>> /\ Head(s) \in cutset THEN TrimLeft(Tail(s), cutset) ELSE s

RECURSIVE TrimRight(_, _)
TrimRight(s, cutset) ==
    IF s # <<>> /\ s[Len(s)] \in cutset
    THEN TrimRight(SubSeq(s, 1, Len(s) - 1), cutset)
    ELSE s

\* strings.Trim(s, cutset): all leading and trailing runes of cutset removed
Trim(s, cutset) == TrimRight(TrimLeft(s, cutset), cutset)

HexDigits == <<"0", "1", "2", "3", "4", "5", "6", "7",
               "8", "9", "a", "b", "c", "d", "e", "f">>

HexDigitsUpper == <<"0", "1", "2", "3", "4", "5", "6", "7",
                    "8", "9", "A", "B", "C", "D", "E", "F">>

RECURSIVE SprintfHexUpper(_)
\* fmt.Sprintf("%X", r)
SprintfHexUpper(r) ==
    IF r < 16 THEN HexDigitsUpper[r + 1]
    ELSE SprintfHexUpper(r \div 16) \o HexDigitsUpper[(r % 16) + 1]

RECURSIVE SprintfHex(_)
\* fmt.Sprintf("%x", r)
SprintfHex(r) ==
    IF r < 16 THEN HexDigits[r + 1]
    ELSE SprintfHex(r \div 16) \o HexDigits[(r % 16) + 1]

RECURSIVE Join(_, _)
\* strings.Join(elems, sep)
Join(elems, sep) ==
    IF elems = <<>> THEN ""
    ELSE IF Len(elems) = 1 THEN elems[1]
    ELSE elems[1] \o sep \o Join(Tail(elems), sep)

RECURSIVE TwemojiCodes(_)
\* the loop of emojiToTwemojiURL: one hex code per rune other than U+FE0F
TwemojiCodes(emoji) ==
    IF emoji = <<>> THEN <<>>
    ELSE (IF Head(emoji) # VariationSelector
          THEN <<SprintfHex(Head(emoji))>>
          ELSE <<>>) \o TwemojiCodes(Tail(emoji))

emojiToTwemojiURL(emoji) ==
    TwemojiPrefix \o Join(TwemojiCodes(emoji), "-") \o TwemojiSuffix

-----------------------------------------------------------------------------
(* Rasters: package image and image/draw, for rasters one pixel high.       *)
(* A pixel is 0 when fully transparent and a colour 1, 2, ... when opaque.  *)

\* image.Rect(x0, 0, x1, 1): the pixels x0 .. x1-1
Rect(x0, x1) == [Min |-> x0, Max |-> x1]

\* r.Dx()
Dx(r) == r.Max - r.Min

\* image.NewRGBA(r): all pixels transparent
NewRGBA(r) == [Rect |-> r, Pix |-> [x \in r.Min .. (r.Max - 1) |-> 0]]

\* image.Transparent: a uniform image of transparent pixels, in every place
Transparent == [Rect |-> Rect(-1000000000, 1000000000), Pix |-> <<>>]

\* src.At(x), for x in the bounds of src
At(src, x) == IF x \in DOMAIN src.Pix THEN src.Pix[x] ELSE 0

\* draw.Draw(dst, r, src, sp, op): r is clipped to the bounds of dst and of
\* src; draw.Src copies the source pixel, draw.Over keeps the destination
\* under a transparent source pixel
Draw(dst, r, src, sp, op) ==
    [dst EXCEPT !.Pix =
        [x \in DOMAIN dst.Pix |->
            LET sx == sp + (x - r.Min)
            IN  IF /\ r.Min <= x /\ x < r.Max
                   /\ src.Rect.Min <= sx /\ sx < src.Rect.Max
                THEN IF op = "Src" \/ At(src, sx) # 0
                     THEN At(src, sx)
                     ELSE dst.Pix[x]
                ELSE dst.Pix[x]]]

\* frameCopy := image.NewRGBA(canvas.Bounds()); draw.Draw(frameCopy,
\* frameCopy.Bounds(), canvas, image.Point{}, draw.Src);
\* ebiten.NewImageFromImage(frameCopy)
CopyOf(canvas) ==
    LET frameCopy == NewRGBA(canvas.Rect)
    IN  Draw(frameCopy, frameCopy.Rect, canvas, 0, "Src")

-----------------------------------------------------------------------------
(* preRenderGifAnimation *)

\* gif.DisposalNone, gif.DisposalBackground, gif.DisposalPrevious
DisposalNone == 1

DisposalBackground == 2

DisposalPrevious == 3

\* draw.Draw(canvas, srcImg.Bounds(), srcImg, srcImg.Bounds().Min, draw.Src)
GifDrawSrc(canvas, srcImg) ==
    Draw(canvas, srcImg.Rect, srcImg, srcImg.Rect.Min, "Src")

\* draw.Draw(canvas, srcImg.Bounds(), srcImg, srcImg.Bounds().Min, draw.Over)
GifDraw(canvas, srcImg) ==
    Draw(canvas, srcImg.Rect, srcImg, srcImg.Rect.Min, "Over")

\* GifDispose that clears the whole canvas
GifDisposeCanvas(canvas, srcImg, disposal) ==
    IF disposal = DisposalBackground
    THEN Draw(canvas, canvas.Rect, Transparent, 0, "Src")
    ELSE canvas

\* if g.Disposal[i] == gif.DisposalBackground { draw.Draw(canvas,
\* srcImg.Bounds(), image.Transparent, image.Point{}, draw.Src) }
GifDispose(canvas, srcImg, disposal) ==
    IF disposal = DisposalBackground
    THEN Draw(canvas, srcImg.Rect, Transparent, 0, "Src")
    ELSE canvas

RECURSIVE GifLoop(_, _, _, _)
\* for i, srcImg := range g.Image, from sub-image i on: the frames
GifLoop(g, i, canvas, frames) ==
    IF i > Len(g.Image) THEN frames
    ELSE LET srcImg == g.Image[i]
             drawn == GifDraw(canvas, srcImg)
         IN  GifLoop(g, i + 1, GifDispose(drawn, srcImg, g.Disposal[i]),
                     Append(frames, CopyOf(drawn)))

\* the delays without the conversion to milliseconds
GifDelaysUnscaled(g) == g.Delay

\* delaysInMs[i] = d * 10, for i, d := range g.Delay
GifDelays(g) == [i \in 1..Len(g.Delay) |-> g.Delay[i] * 10]

preRenderGifAnimation(g) ==
    [Frames |-> GifLoop(g, 1, NewRGBA(Rect(0, g.Config.Width)), <<>>),
     FrameDelays |-> GifDelays(g)]

\* the rectangle and the transparent pixels of a frame: the first pixel of
\* the canvas, the last, or the whole canvas, opaque or with its first pixel
\* transparent
FrameShapes ==
    {[rect |-> Rect(0, 1), holes |-> {}],
     [rect |-> Rect(CanvasWidth - 1, CanvasWidth), holes |-> {}],
     [rect |-> Rect(0, CanvasWidth), holes |-> {}],
     [rect |-> Rect(0, CanvasWidth), holes |-> {0}]}

\* the image of a frame: its opaque pixels have the colour given
FrameImage(rect, holes, colour) ==
    [Rect |-> rect,
     Pix |-> [x \in rect.Min .. (rect.Max - 1) |->
                 IF x \in holes THEN 0 ELSE colour]]

\* the delays of n frames: all zero, or different from frame to frame
DelayProfiles(n) == {[i \in 1..n |-> 0], [i \in 1..n |-> 2 + i]}

\* the disposal methods a GIF frame can carry (0: not specified)
GifDisposals == {0, DisposalNone, DisposalBackground, DisposalPrevious}

\* what gif.DecodeAll returns for n sub-images: Image, Delay and Disposal
\* have one element per sub-image; sub-image i is drawn in colour i
DecodedGif(n, shape, disposal, delay) ==
    [Config |-> [Width |-> CanvasWidth],
     Image |-> [i \in 1..n |-> FrameImage(shape[i].rect, shape[i].holes, i)],
     Delay |-> delay,
     Disposal |-> disposal]

\* imageIn is a GIF of lo to hi sub-images
GifIn(lo, hi) ==
    \E n \in lo..hi :
        \E shape \in [1..n -> FrameShapes] :
            \E disposal \in [1..n -> GifDisposals] :
                \E delay \in DelayProfiles(n) :
                    imageIn = [called |-> FALSE,
                               gif |-> DecodedGif(n, shape, disposal, delay)]

-----------------------------------------------------------------------------
(* Natural numbers of any size, as the mantissas of float64 need them: a    *)
(* number is the sequence of its digits in base Limb, lowest digit first,    *)
(* without a highest digit 0; <<>> is zero.                                  *)

Limb == 16384

\* the bits of a digit
LimbBits == 14

RECURSIVE Pow2(_)
Pow2(k) == IF k = 0 THEN 1 ELSE 2 * Pow2(k - 1)

\* the number of binary digits of the integer n
RECURSIVE BitLen(_)
BitLen(n) == IF n = 0 THEN 0 ELSE 1 + BitLen(n \div 2)

RECURSIVE Big(_)
Big(n) == IF n = 0 THEN <<>> ELSE <<n % Limb>> \o Big(n \div Limb)

\* a without its highest digits 0
RECURSIVE BigNorm(_)
BigNorm(a) ==
    IF a = <<>> THEN <<>>
    ELSE IF a[Len(a)] = 0 THEN BigNorm(SubSeq(a, 1, Len(a) - 1))
    ELSE a

\* the integer a stands for, when it is below 2^31
RECURSIVE BigToInt(_)
BigToInt(a) == IF a = <<>> THEN 0 ELSE Head(a) + Limb * BigToInt(Tail(a))

\* a * k + carry, for k and carry below 2^16
RECURSIVE BigMulSmall(_, _, _)
BigMulSmall(a, k, carry) ==
    IF a = <<>> THEN Big(carry)
    ELSE LET p == Head(a) * k + carry
         IN  <<p % Limb>> \o BigMulSmall(Tail(a), k, p \div Limb)

\* the digits a[1..i] divided by d below 2^16, r being the remainder of the
\* digits above them: the quotient digits and the last remainder
RECURSIVE BigDivFrom(_, _, _, _)
BigDivFrom(a, d, i, r) ==
    IF i = 0 THEN [q |-> <<>>, r |-> r]
    ELSE LET cur == r * Limb + a[i]
             rest == BigDivFrom(a, d, i - 1, cur % d)
         IN  [q |-> Append(rest.q, cur \div d), r |-> rest.r]

\* quotient and remainder of a by d, for 0 < d < 2^16
BigDivSmall(a, d) ==
    LET res == BigDivFrom(a, d, Len(a), 0)
    IN  [q |-> BigNorm(res.q), r |-> res.r]

\* a + b + carry
RECURSIVE BigAdd(_, _, _)
BigAdd(a, b, carry) ==
    IF a = <<>> /\ b = <<>> THEN Big(carry)
    ELSE LET x == IF a = <<>> THEN 0 ELSE Head(a)
             y == IF b = <<>> THEN 0 ELSE Head(b)
             s == x + y + carry
         IN  <<s % Limb>> \o BigAdd(IF a = <<>> THEN a ELSE Tail(a),
                                    IF b = <<>> THEN b ELSE Tail(b),
                                    s \div Limb)

\* the digits of a - b - borrow, for a >= b + borrow
RECURSIVE BigSubDigits(_, _, _)
BigSubDigits(a, b, borrow) ==
    IF a = <<>> THEN <<>>
    ELSE LET y == IF b = <<>> THEN 0 ELSE Head(b)
             s == Head(a) - y - borrow
         IN  <<IF s < 0 THEN s + Limb ELSE s>>
                 \o BigSubDigits(Tail(a), IF b = <<>> THEN b ELSE Tail(b),
                                 IF s < 0 THEN 1 ELSE 0)

BigSub(a, b) == BigNorm(BigSubDigits(a, b, 0))

\* -1, 0 or 1 as the digits a[1..i] are below, equal to or above b[1..i]
RECURSIVE BigCmpFrom(_, _, _)
BigCmpFrom(a, b, i) ==
    IF i = 0 THEN 0
    ELSE IF a[i] < b[i] THEN -1
    ELSE IF a[i] > b[i] THEN 1
    ELSE BigCmpFrom(a, b, i - 1)

BigCmp(a, b) ==
    IF Len(a) < Len(b) THEN -1
    ELSE IF Len(a) > Len(b) THEN 1
    ELSE BigCmpFrom(a, b, Len(a))

\* the number of binary digits of a
BigBits(a) ==
    IF a = <<>> THEN 0 ELSE LimbBits * (Len(a) - 1) + BitLen(a[Len(a)])

\* a * 2^s
BigShl(a, s) ==
    IF a = <<>> THEN <<>>
    ELSE [i \in 1..(s \div LimbBits) |-> 0]
             \o BigMulSmall(a, Pow2(s % LimbBits), 0)

\* a \div 2^s
BigShr(a, s) ==
    IF s \div LimbBits >= Len(a) THEN <<>>
    ELSE BigDivSmall(SubSeq(a, (s \div LimbBits) + 1, Len(a)),
                     Pow2(s % LimbBits)).q

BigOdd(a) == a # <<>> /\ Head(a) % 2 = 1

-----------------------------------------------------------------------------
(* float64: a value that is not negative is [m, e], standing for m * 2^e     *)
(* with m below 2^53 (or 2^53 itself); the results of the operations are     *)
(* rounded to the nearest such value, to the even one of two nearest.        *)

MantissaBits == 53

\* extra binary digits carried by a quotient before it is rounded
GuardBits == 72

\* m * 2^e rounded to the 53 binary digits of a float64
Float64Round(m, e) ==
    IF BigBits(m) <= MantissaBits THEN [m |-> m, e |-> e]
    ELSE LET s == BigBits(m) - MantissaBits
             q == BigShr(m, s)
             rest == BigSub(m, BigShl(q, s))
             half == BigCmp(BigShl(rest, 1), BigShl(Big(1), s))
             up == half = 1 \/ (half = 0 /\ BigOdd(q))
         IN  [m |-> IF up THEN BigAdd(q, <<>>, 1) ELSE q, e |-> e + s]

\* float64(n) for an integer 0 <= n < 2^31
Float64(n) == [m |-> Big(n), e |-> 0]

\* float64(num) / float64(den), for 0 <= num < 2^16 and 0 < den < 2^16: the
\* quotient is taken to GuardBits binary places and a remainder left over
\* makes its last digit odd
Float64Div(num, den) ==
    LET res == BigDivSmall(BigShl(Big(num), GuardBits), den)
        q == IF res.r # 0 /\ ~BigOdd(res.q) THEN BigAdd(res.q, <<>>, 1) ELSE res.q
    IN  Float64Round(q, -GuardBits)

\* x * k for an integer 0 <= k < 2^16
Float64Mul(x, k) == Float64Round(BigNorm(BigMulSmall(x.m, k, 0)), x.e)

\* the mantissa of x at the exponent e <= x.e
Float64At(x, e) == BigShl(x.m, x.e - e)

Float64MinExp(x, y) == IF x.e < y.e THEN x.e ELSE y.e

\* x + y
Float64Add(x, y) ==
    LET e == Float64MinExp(x, y)
    IN  Float64Round(BigAdd(Float64At(x, e), Float64At(y, e), 0), e)

\* x - y, for x >= y
Float64Sub(x, y) ==
    LET e == Float64MinExp(x, y)
    IN  Float64Round(BigSub(Float64At(x, e), Float64At(y, e)), e)

\* x >= y
Float64Geq(x, y) ==
    LET e == Float64MinExp(x, y)
    IN  BigCmp(Float64At(x, e), Float64At(y, e)) >= 0

\* x == 0
Float64IsZero(x) == x.m = <<>>

\* int(math.Round(x)): the nearest integer, the half rounded away from zero
RoundToInt(x) ==
    IF x.e >= 0 THEN BigToInt(BigShl(x.m, x.e))
    ELSE BigToInt(BigShr(BigAdd(x.m, BigShl(Big(1), (-x.e) - 1), 0), -x.e))

-----------------------------------------------------------------------------
(* preRenderApngAnimation *)

\* apng.DISPOSE_OP_NONE, apng.DISPOSE_OP_BACKGROUND, apng.DISPOSE_OP_PREVIOUS
DISPOSE_OP_NONE == 0

DISPOSE_OP_BACKGROUND == 1

DISPOSE_OP_PREVIOUS == 2

\* apng.BLEND_OP_SOURCE, apng.BLEND_OP_OVER
BLEND_OP_SOURCE == 0

BLEND_OP_OVER == 1

\* frame.GetDelay() in seconds: float64(DelayNumerator) / float64(d), given
\* here as the two operands of the division; the denominator 0 stands for 100
GetDelay(frame) ==
    [num |-> frame.DelayNumerator,
     den |-> IF frame.DelayDenominator = 0 THEN 100 ELSE frame.DelayDenominator]

\* the delay in hundredths of a second taken for milliseconds
DelayInCentiseconds(frame) ==
    LET d == GetDelay(frame)
    IN  (2 * 100 * d.num + d.den) \div (2 * d.den)

\* int(math.Round(delaySeconds * 1000)) for delaySeconds = d.num / d.den
Milliseconds(d) == RoundToInt(Float64Mul(Float64Div(d.num, d.den), 1000))

\* Milliseconds on the short delays in hundredths and in thirds of a second,
\* computed once
ShortDelays ==
    [d \in [num : 0..(MaxApngFrames + 1), den : {3, 100}] |-> Milliseconds(d)]

\* int(math.Round(delaySeconds * 1000))
DelayInMilliseconds(frame) ==
    LET d == GetDelay(frame)
    IN  IF d \in DOMAIN ShortDelays THEN ShortDelays[d] ELSE Milliseconds(d)

\* image.Rect(frame.XOffset, frame.YOffset, frame.XOffset+frameWidth, ...)
DstRect(frame) == Rect(frame.XOffset, frame.XOffset + Dx(frame.Image.Rect))

\* the drawing operator of the frame
BlendOpOf(frame) == IF frame.BlendOp = BLEND_OP_SOURCE THEN "Src" ELSE "Over"

\* ApngSave that leaves the snapshot as it is
ApngSaveNever(prevCanvas, canvas) == prevCanvas

\* draw.Draw(prevCanvas, prevCanvas.Bounds(), canvas, image.Point{}, draw.Src)
ApngSave(prevCanvas, canvas) ==
    Draw(prevCanvas, prevCanvas.Rect, canvas, 0, "Src")

\* draw.Draw(canvas, dstRect, frame.Image, frame.Image.Bounds().Min, op)
ApngDraw(canvas, frame) ==
    Draw(canvas, DstRect(frame), frame.Image, frame.Image.Rect.Min, BlendOpOf(frame))

\* switch frame.DisposeOp: the canvas for the next frame
ApngDispose(canvas, prevCanvas, frame) ==
    IF frame.DisposeOp = DISPOSE_OP_BACKGROUND
    THEN Draw(canvas, DstRect(frame), Transparent, 0, "Src")
    ELSE IF frame.DisposeOp = DISPOSE_OP_PREVIOUS
    THEN Draw(canvas, canvas.Rect, prevCanvas, 0, "Src")
    ELSE canvas

\* ApngSkips that skips no frame
ApngSkipsNone(frame) == FALSE

\* if frame.IsDefault { continue }
ApngSkips(frame) == frame.IsDefault

\* ApngFrame that applies the disposal before it copies the canvas
ApngFrameDisposeFirst(st, frame) ==
    LET prevCanvas == ApngSave(st.prevCanvas, st.canvas)
        drawn == ApngDraw(st.canvas, frame)
        disposed == ApngDispose(drawn, prevCanvas, frame)
    IN  [canvas |-> disposed,
         prevCanvas |-> prevCanvas,
         Frames |-> Append(st.Frames, CopyOf(disposed)),
         FrameDelays |-> Append(st.FrameDelays, DelayInMilliseconds(frame)),
         before |-> Append(st.before, st.canvas)]

\* the body of the loop for a frame of the animation; before keeps the
\* canvas each frame was drawn on
ApngFrame(st, frame) ==
    LET prevCanvas == ApngSave(st.prevCanvas, st.canvas)
        drawn == ApngDraw(st.canvas, frame)
    IN  [canvas |-> ApngDispose(drawn, prevCanvas, frame),
         prevCanvas |-> prevCanvas,
         Frames |-> Append(st.Frames, CopyOf(drawn)),
         FrameDelays |-> Append(st.FrameDelays, DelayInMilliseconds(frame)),
         before |-> Append(st.before, st.canvas)]

RECURSIVE ApngLoop(_, _, _)
\* for _, frame := range animation.Frames, from frame i on
ApngLoop(frames, i, st) ==
    IF i > Len(frames) THEN st
    ELSE IF ApngSkips(frames[i]) THEN ApngLoop(frames, i + 1, st)
    ELSE ApngLoop(frames, i + 1, ApngFrame(st, frames[i]))

\* the loop from the two empty canvases
ApngRun(animation, canvasWidth) ==
    ApngLoop(animation.Frames, 1,
             [canvas |-> NewRGBA(Rect(0, canvasWidth)),
              prevCanvas |-> NewRGBA(Rect(0, canvasWidth)),
              Frames |-> <<>>, FrameDelays |-> <<>>, before |-> <<>>])

preRenderApngAnimation(animation, canvasWidth) ==
    LET st == ApngRun(animation, canvasWidth)
    IN  [Frames |-> st.Frames, FrameDelays |-> st.FrameDelays]

\* the delays of n APNG frames: i hundredths of a second with the
\* denominator left 0, or i thirds of a second
ApngDelayProfiles(n) ==
    {[i \in 1..n |-> [num |-> i, den |-> 0]],
     [i \in 1..n |-> [num |-> i, den |-> 3]]}

\* what apng.DecodeAll returns for n frames: only the first frame can be the
\* default image; frame i is drawn in colour i
DecodedApng(n, shape, dispose, blend, delay, hasDefault) ==
    [Frames |->
        [i \in 1..n |->
            [IsDefault |-> hasDefault /\ i = 1,
             BlendOp |-> blend,
             XOffset |-> shape[i].rect.Min,
             Image |-> FrameImage(Rect(0, Dx(shape[i].rect)),
                                  {h - shape[i].rect.Min : h \in shape[i].holes}, i),
             DisposeOp |-> dispose[i],
             DelayNumerator |-> delay[i].num,
             DelayDenominator |-> delay[i].den]]]

\* the frames of the animation: those that are not the default image
RealFrames(animation) ==
    SelectSeq(animation.Frames, LAMBDA f : ~f.IsDefault)

\* imageIn is an APNG of lo to hi frames
ApngIn(lo, hi) ==
    \E n \in lo..hi :
        \E shape \in [1..n -> FrameShapes] :
            \E dispose \in [1..n -> {DISPOSE_OP_NONE, DISPOSE_OP_BACKGROUND,
                                      DISPOSE_OP_PREVIOUS}] :
                \E blend \in {BLEND_OP_SOURCE, BLEND_OP_OVER} :
                    \E delay \in ApngDelayProfiles(n) :
                        \E hasDefault \in BOOLEAN :
                            imageIn =
                              [called |-> FALSE, width |-> CanvasWidth,
                               apng |-> DecodedApng(n, shape, dispose, blend,
                                                    delay, hasDefault)]

-----------------------------------------------------------------------------
(* preRenderWebpAnimation *)

\* preRenderWebpAnimation with FrameDelays left empty
preRenderWebpNoDelays(animation) ==
    [Frames |-> [i \in 1..Len(animation.Image) |-> CopyOf(animation.Image[i])],
     FrameDelays |-> <<>>]

\* one ebiten image per frame of animation.Image, the delays as the decoder
\* gives them
preRenderWebpAnimation(animation) ==
    [Frames |-> [i \in 1..Len(animation.Image) |-> CopyOf(animation.Image[i])],
     FrameDelays |-> animation.Delay]

\* what webpanimation.DecodeAll returns for n frames: Image and Delay have
\* one element per frame, every image covers the canvas; frame i is drawn in
\* colour i
DecodedWebp(n, holes, delay) ==
    [Image |-> [i \in 1..n |-> FrameImage(Rect(0, CanvasWidth), holes[i], i)],
     Delay |-> delay]

\* imageIn is a WebP animation of lo to hi frames
WebpIn(lo, hi) ==
    \E n \in lo..hi :
        \E holes \in [1..n -> {{}, {0}}] :
            \E delay \in DelayProfiles(n) :
                imageIn = [called |-> FALSE, webp |-> DecodedWebp(n, holes, delay)]

-----------------------------------------------------------------------------
(* Values *)

\* the reaction names the feed delivers: the standard symbol U+1F44D, the
\* custom identifier ":a:", and the two delimiter names "::" and ":a"
ThumbsUp == <<128077>>

CustomA == <<58, 97, 58>>

TwoColons == <<58, 58>>

ColonA == <<58, 97>>

Names == {ThumbsUp, CustomA, TwoColons, ColonA}

\* the URL an event carries ("" when the note gives none)
EventURLs == {"", "https://u1/a.png", "https://u2/a.gif"}

\* ReactionInfo{Name, URL}: the events of the feed
ReactionInfo ==
    [Name : Names, URL : {""}]
        \cup [Name : {CustomA}, URL : EventURLs]
        \cup [Name : {ThumbsUp}, URL : {"https://u1/a.png"}]

\* a nil *ebiten.Image or *AnimatedImage
Nil == [type |-> "nil", url |-> "", ptr |-> 0]

\* a decoded asset: type is the Go type held in the cache ("Static" for
\* *ebiten.Image, "Animated" for *AnimatedImage), url the URL its bytes came
\* from, ptr the identity of the allocation (the task that decoded it)
NewAsset(type, url, ptr) == [type |-> type, url |-> url, ptr |-> ptr]

\* &DecodedImage{Static, Animated} and the error returned beside it
DecodedImage(static, animated) ==
    [err |-> FALSE, Static |-> static, Animated |-> animated]

DecodeFailed == [err |-> TRUE, Static |-> Nil, Animated |-> Nil]

\* nil and the error of a decoder: which names the decoder whose error it
\* is ("config", "animated" or "static")
DecodeError(which) ==
    [err |-> TRUE, Static |-> Nil, Animated |-> Nil, which |-> which]

\* the bytes of a response body, by what the decoders make of them:
\* contentType is the family http.DetectContentType names, configOk whether
\* apng.DecodeConfig accepts them, animOk whether the DecodeAll of the family
\* does and anim what it returns, staticOk whether the static decoder does
\* and still what it returns
ImageFile(contentType, configOk, animOk, staticOk, anim, still) ==
    [contentType |-> contentType, configOk |-> configOk, animOk |-> animOk,
     staticOk |-> staticOk, anim |-> anim, still |-> still, width |-> CanvasWidth]

\* the picture a static decoder returns: the canvas in colour 1
StillImage == FrameImage(Rect(0, CanvasWidth), {}, 1)

\* no animation decoded
NoAnimation == [Image |-> <<>>, Frames |-> <<>>]

\* bytes no decoder accepts
CorruptFile == ImageFile("other", FALSE, FALSE, FALSE, NoAnimation, StillImage)

\* a GIF file: gif.Decode accepts what gif.DecodeAll accepts
GifFile(g) == ImageFile("gif", TRUE, TRUE, TRUE, g, g.Image[1])

\* a PNG file the animated decoder accepts
ApngFile(animation, staticOk) ==
    ImageFile("png", TRUE, TRUE, staticOk, animation, StillImage)

\* a WebP file the animated decoder accepts
WebpFile(animation, staticOk) ==
    ImageFile("webp", TRUE, TRUE, staticOk, animation, StillImage)

\* two opaque frames over the whole canvas
TwoFrames == [i \in 1..2 |-> [rect |-> Rect(0, CanvasWidth), holes |-> {}]]

\* a PNG that is not animated: the decoder reports the default image alone
PlainPng ==
    ApngFile(DecodedApng(1, TwoFrames, [i \in 1..1 |-> DISPOSE_OP_NONE],
                         BLEND_OP_SOURCE, [i \in 1..1 |-> [num |-> 0, den |-> 0]],
                         TRUE),
             TRUE)

\* the image held at a URL: the bytes behind a URL do not change, a GIF and
\* a WebP hold several frames, a PNG one
BodyAt(url) ==
    IF url = "https://u2/a.gif"
    THEN GifFile(DecodedGif(2, TwoFrames, [i \in 1..2 |-> DisposalNone],
                            [i \in 1..2 |-> 2 + i]))
    ELSE IF url = "https://r/a.webp"
    THEN WebpFile(DecodedWebp(2, [i \in 1..2 |-> {}], [i \in 1..2 |-> 2 + i]), TRUE)
    ELSE PlainPng

\* http.Get failed, or the status is not 200: no body is read
NoResponse(status) ==
    [transportErr |-> status = 0, status |-> status, readErr |-> FALSE,
     body |-> CorruptFile]

\* a 200 response whose body is read in full
Response(body) ==
    [transportErr |-> FALSE, status |-> StatusOK, readErr |-> FALSE, body |-> body]

\* a 200 response whose body io.ReadAll fails to read
Unreadable(body) ==
    [transportErr |-> FALSE, status |-> StatusOK, readErr |-> TRUE, body |-> body]

\* a response with a status other than 200 and a body
Refused(status, body) ==
    [transportErr |-> FALSE, status |-> status, readErr |-> FALSE, body |-> body]

\* what http.Get(url) and io.ReadAll can meet: a transport error, a status
\* other than 200 (the body being the image all the same), a body cut short,
\* the image, or bytes no decoder accepts
HttpResponses(url) ==
    {NoResponse(0), Refused(404, BodyAt(url)), Unreadable(BodyAt(url)),
     Response(CorruptFile), Response(BodyAt(url))}

\* what http.Post to /api/emoji can meet
ApiResponses ==
    {[configLoaded |-> FALSE, transportErr |-> FALSE, status |-> 0, jsonOk |-> FALSE, url |-> ""],
     [configLoaded |-> TRUE, transportErr |-> TRUE, status |-> 0, jsonOk |-> FALSE, url |-> ""],
     [configLoaded |-> TRUE, transportErr |-> FALSE, status |-> 404, jsonOk |-> TRUE, url |-> ""],
     [configLoaded |-> TRUE, transportErr |-> FALSE, status |-> StatusOK, jsonOk |-> FALSE, url |-> ""],
     [configLoaded |-> TRUE, transportErr |-> FALSE, status |-> StatusOK, jsonOk |-> TRUE, url |-> ""],
     [configLoaded |-> TRUE, transportErr |-> FALSE, status |-> StatusOK, jsonOk |-> TRUE,
      url |-> "https://r/a.webp"]}

-----------------------------------------------------------------------------
(* Pure parts of the load task *)

\* QueryEmojiAPI without the test for an empty url field
QueryEmojiAPIAnyURL(emojiName, api) ==
    IF ~api.configLoaded THEN [url |-> "", err |-> TRUE]
    ELSE IF api.transportErr THEN [url |-> "", err |-> TRUE]
    ELSE IF api.status # StatusOK THEN [url |-> "", err |-> TRUE]
    ELSE IF ~api.jsonOk THEN [url |-> "", err |-> TRUE]
    ELSE [url |-> api.url, err |-> FALSE]

\* MisskeyClient.QueryEmojiAPI against the response api: (url, err)
QueryEmojiAPI(emojiName, api) ==
    IF ~api.configLoaded THEN [url |-> "", err |-> TRUE]
    ELSE IF api.transportErr THEN [url |-> "", err |-> TRUE]
    ELSE IF api.status # StatusOK THEN [url |-> "", err |-> TRUE]
    ELSE IF ~api.jsonOk THEN [url |-> "", err |-> TRUE]
    ELSE IF api.url = "" THEN [url |-> "", err |-> TRUE]
    ELSE [url |-> api.url, err |-> FALSE]

\* the static path: image.Decode, png.Decode or webp.Decode, then
\* ebiten.NewImageFromImage
DecodeStatic(data) ==
    IF ~data.staticOk THEN DecodeError("static")
    ELSE DecodedImage(CopyOf(data.still), Nil)

\* the static path after the animated decoder failed: its own error is
\* dropped for the error of the animated decoder
DecodeStaticInstead(data) ==
    IF ~data.staticOk THEN DecodeError("animated")
    ELSE DecodedImage(CopyOf(data.still), Nil)

\* numFrames counting the default image as well
NumFramesAll(animation) == Len(animation.Frames)

\* numFrames: the frames of the animation that are not the default image
NumFrames(animation) ==
    Cardinality({i \in 1..Len(animation.Frames) : ~animation.Frames[i].IsDefault})

\* the GIF branch
DecodeGif(data) ==
    IF ~data.animOk THEN DecodeError("animated")
    ELSE IF Len(data.anim.Image) <= 1 THEN DecodeStatic(data)
    ELSE DecodedImage(Nil, preRenderGifAnimation(data.anim))

\* the PNG branch giving up when apng.DecodeAll fails
DecodePngAnimatedOnly(data) ==
    IF ~data.configOk THEN DecodeError("config")
    ELSE IF ~data.animOk THEN DecodeError("animated")
    ELSE IF NumFrames(data.anim) <= 1 THEN DecodeStatic(data)
    ELSE DecodedImage(Nil, preRenderApngAnimation(data.anim, data.width))

\* the PNG branch
DecodePng(data) ==
    IF ~data.configOk THEN DecodeError("config")
    ELSE IF ~data.animOk THEN DecodeStaticInstead(data)
    ELSE IF NumFrames(data.anim) <= 1 THEN DecodeStatic(data)
    ELSE DecodedImage(Nil, preRenderApngAnimation(data.anim, data.width))

\* the WebP branch
DecodeWebp(data) ==
    IF ~data.animOk THEN DecodeStaticInstead(data)
    ELSE IF Len(data.anim.Image) <= 1 THEN DecodeStatic(data)
    ELSE DecodedImage(Nil, preRenderWebpAnimation(data.anim))

\* the switch on the content type
DecodeData(data) ==
    IF data.contentType = "gif" THEN DecodeGif(data)
    ELSE IF data.contentType = "png" THEN DecodePng(data)
    ELSE IF data.contentType = "webp" THEN DecodeWebp(data)
    ELSE DecodeStatic(data)

\* FetchedImage that decodes the body whatever the status
FetchedImageAnyStatus(resp) ==
    IF resp.transportErr THEN DecodeFailed
    ELSE IF resp.readErr THEN DecodeFailed
    ELSE DecodeData(resp.body)

\* fetchAndDecodeImage against the response resp: the images it decodes
FetchedImage(resp) ==
    IF resp.transportErr THEN DecodeFailed
    ELSE IF resp.status # StatusOK THEN DecodeFailed
    ELSE IF resp.readErr THEN DecodeFailed
    ELSE DecodeData(resp.body)

\* fetchAndDecodeImage whose decoder keeps the animation for the first
\* caller and gives the later ones its first frame only
fetchAndDecodeImageFirstCaller(url, resp, ptr) ==
    LET decoded == FetchedImage(resp)
    IN  IF decoded.err THEN DecodeFailed
        ELSE IF decoded.Animated # Nil /\ ptr <= 1
        THEN DecodedImage(Nil, NewAsset("Animated", url, ptr))
        ELSE DecodedImage(NewAsset("Static", url, ptr), Nil)

\* fetchAndDecodeImage(url) against the response resp, allocating at ptr:
\* the handles of the images it decodes
fetchAndDecodeImage(url, resp, ptr) ==
    LET decoded == FetchedImage(resp)
    IN  IF decoded.err THEN DecodeFailed
        ELSE IF decoded.Animated # Nil
        THEN DecodedImage(Nil, NewAsset("Animated", url, ptr))
        ELSE DecodedImage(NewAsset("Static", url, ptr), Nil)

\* IsCustomName with len(reaction.Name) >= 2 for len(reaction.Name) > 2
IsCustomNameFromTwo(name) ==
    LET b == Bytes(name)
    IN  Len(b) >= 2 /\ b[1] = Colon /\ b[Len(b)] = Colon

\* the test of LoadImageForObject for a custom identifier
IsCustomName(name) ==
    LET b == Bytes(name)
    IN  Len(b) > 2 /\ b[1] = Colon /\ b[Len(b)] = Colon

-----------------------------------------------------------------------------
(* State *)

NewReactionObject(reaction) ==
    [reactionName |-> reaction.Name, image |-> Nil, animatedImage |-> Nil,
     currentFrame |-> 0, frameTimeAccumulator |-> Float64(0),
     fallbackText |-> <<>>]

NewTask(reaction) ==
    [pc |-> "Get", reaction |-> reaction, cachedItem |-> Nil, exists |-> FALSE,
     urlToFetch |-> "", queryErr |-> FALSE, decoded |-> DecodedImage(Nil, Nil)]

NoCalls ==
    [Get |-> <<>>, QueryEmojiAPI |-> <<>>, emojiToTwemojiURL |-> <<>>,
     fetchAndDecodeImage |-> <<>>, Set |-> <<>>]

Tasks == DOMAIN task

\* NewImageManager, NewGame
InitGame ==
    /\ objects = <<>>
    /\ task = <<>>
    /\ cache = [k \in {} |-> Nil]
    /\ cacheMutex = [readers |-> {}, writer |-> 0]
    /\ calls = <<>>

\* no stand-alone cache or decoder call is made
NotCalled == [called |-> FALSE]

InitStandalone ==
    /\ history = <<>>
    /\ imageIn = NotCalled
    /\ imageOut = NotCalled

Init ==
    /\ InitGame
    /\ emojiIn = <<>>
    /\ twemojiOut = ""
    /\ InitStandalone

-----------------------------------------------------------------------------
(* Game.spawnReaction: a display object and its load task *)

\* reaction is the event Update took from reactionChan
spawnReaction(reaction) ==
    /\ IF Len(objects) >= maxObjects
       THEN UNCHANGED <<objects, task, calls>>
       ELSE /\ objects' = Append(objects, NewReactionObject(reaction))
            /\ task' = Append(task, NewTask(reaction))
            /\ calls' = Append(calls, NoCalls)
    /\ UNCHANGED <<cache, cacheMutex, emojiIn, twemojiOut, standalone>>

-----------------------------------------------------------------------------
(* ImageManager.Get *)

\* im.cacheMutex.RLock()
GetRLock(t) ==
    /\ task[t].pc = "Get"
    /\ cacheMutex.writer = 0
    /\ cacheMutex' = [cacheMutex EXCEPT !.readers = @ \cup {t}]
    /\ task' = [task EXCEPT ![t].pc = "GetLocked"]
    /\ UNCHANGED <<objects, cache, calls, emojiIn, twemojiOut, standalone>>

\* item, exists := im.cache[key]; the deferred RUnlock; return
GetRUnlock(t) ==
    LET key == task[t].reaction.Name
        exists == key \in DOMAIN cache
    IN  /\ task[t].pc = "GetLocked"
        /\ task' = [task EXCEPT ![t].pc = "Checked",
                                ![t].exists = exists,
                                ![t].cachedItem = IF exists THEN cache[key] ELSE Nil]
        /\ cacheMutex' = [cacheMutex EXCEPT !.readers = @ \ {t}]
        /\ calls' = [calls EXCEPT ![t].Get =
                        Append(@, [key |-> key, found |-> exists,
                                   afterFallback |->
                                       \E u \in Tasks :
                                          /\ task[u].reaction.Name = key
                                          /\ task[u].pc = "Done"
                                          /\ \/ task[u].queryErr
                                             \/ task[u].decoded.err])]
        /\ UNCHANGED <<objects, cache, emojiIn, twemojiOut, standalone>>

-----------------------------------------------------------------------------
(* ImageManager.LoadImageForObject, the same code as Game.loadReactionImage *)

\* if exists { ...; return }
CacheHit(t) ==
    LET cachedItem == task[t].cachedItem
    IN  /\ task[t].pc = "Checked"
        /\ task[t].exists
        /\ objects' =
             IF cachedItem.type = "Static"
             THEN [objects EXCEPT ![t].image = cachedItem]
             ELSE IF cachedItem.type = "Animated"
             THEN [objects EXCEPT ![t].animatedImage = cachedItem]
             ELSE objects
        /\ task' = [task EXCEPT ![t].pc = "Done"]
        /\ UNCHANGED <<cache, cacheMutex, calls, emojiIn, twemojiOut, standalone>>

\* urlToFetch := reaction.URL, not empty
UseEventURL(t) ==
    /\ task' = [task EXCEPT ![t].pc = "Fetch",
                            ![t].urlToFetch = task[t].reaction.URL]
    /\ UNCHANGED <<objects, cache, calls>>

\* ResolverFailed that also remembers the failure under the name
ResolverFailedRemembered(t, emojiName) ==
    /\ objects' = [objects EXCEPT ![t].fallbackText = emojiName]
    /\ task' = [task EXCEPT ![t].pc = "Done", ![t].queryErr = TRUE]
    /\ cache' = [k \in DOMAIN cache \cup {task[t].reaction.Name} |->
                    IF k = task[t].reaction.Name THEN Nil ELSE cache[k]]

\* ResolverFailed without its return: the load goes on to the fetch
ResolverFailedNoReturn(t, emojiName) ==
    /\ objects' = [objects EXCEPT ![t].fallbackText = emojiName]
    /\ task' = [task EXCEPT ![t].pc = "Fetch", ![t].queryErr = TRUE]
    /\ UNCHANGED cache

\* the resolver returned an error: log, fallback text, return
ResolverFailed(t, emojiName) ==
    /\ objects' = [objects EXCEPT ![t].fallbackText = emojiName]
    /\ task' = [task EXCEPT ![t].pc = "Done", ![t].queryErr = TRUE]
    /\ UNCHANGED cache

\* urlToFetch, err = QueryEmojiAPI(strings.Trim(reaction.Name, ":")) when
\* the API answers api, and the error branch
QueryCustomEmojiWith(t, api) ==
    LET emojiName == Trim(task[t].reaction.Name, {Colon})
        q == QueryEmojiAPI(emojiName, api)
    IN  /\ calls' = [calls EXCEPT ![t].QueryEmojiAPI = Append(@, emojiName)]
        /\ IF q.err
           THEN ResolverFailed(t, emojiName)
           ELSE /\ task' = [task EXCEPT ![t].pc = "Fetch",
                                        ![t].urlToFetch = q.url]
                /\ UNCHANGED <<objects, cache>>

\* urlToFetch, err = QueryEmojiAPI(strings.Trim(reaction.Name, ":"))
QueryCustomEmoji(t) == \E api \in ApiResponses : QueryCustomEmojiWith(t, api)

\* urlToFetch = emojiToTwemojiURL(reaction.Name)
UseTwemojiURL(t) ==
    LET name == task[t].reaction.Name
    IN  /\ calls' = [calls EXCEPT ![t].emojiToTwemojiURL = Append(@, name)]
        /\ task' = [task EXCEPT ![t].pc = "Fetch",
                                ![t].urlToFetch = emojiToTwemojiURL(name)]
        /\ UNCHANGED <<objects, cache>>

\* "Determine URL to fetch": the event's URL, else the resolver for a custom
\* identifier, else the Twemoji URL
ResolveURL(t) ==
    IF task[t].reaction.URL # ""
    THEN UseEventURL(t)
    ELSE IF IsCustomName(task[t].reaction.Name)
    THEN QueryCustomEmoji(t)
    ELSE UseTwemojiURL(t)

\* DetermineURL when the cache-hit branch does not return
DetermineURLAfterHit(t) ==
    /\ task[t].pc = "Checked"
    /\ ResolveURL(t)
    /\ UNCHANGED <<cacheMutex, emojiIn, twemojiOut, standalone>>

\* the cache-miss path of LoadImageForObject up to the fetch
DetermineURL(t) ==
    /\ task[t].pc = "Checked"
    /\ ~task[t].exists
    /\ ResolveURL(t)
    /\ UNCHANGED <<cacheMutex, emojiIn, twemojiOut, standalone>>

\* FetchFailed that ends every other load with it
FetchFailedAborting(t, decoded) ==
    /\ objects' = [objects EXCEPT ![t].fallbackText =
                                     Trim(task[t].reaction.Name, {Colon})]
    /\ task' = [u \in DOMAIN task |->
                  IF u = t THEN [task[u] EXCEPT !.pc = "Done", !.decoded = decoded]
                  ELSE [task[u] EXCEPT !.pc = "Done"]]
    /\ UNCHANGED cache

\* FetchFailed that caches what was fetched all the same
FetchFailedCached(t, decoded) ==
    /\ objects' = [objects EXCEPT ![t].fallbackText =
                                     Trim(task[t].reaction.Name, {Colon})]
    /\ task' = [task EXCEPT ![t].pc = "Done", ![t].decoded = decoded]
    /\ cache' = [k \in DOMAIN cache \cup {task[t].reaction.Name} |->
                    IF k = task[t].reaction.Name
                    THEN NewAsset("Static", task[t].urlToFetch, t)
                    ELSE cache[k]]

\* FetchFailed with the name as it is for the fallback text
FetchFailedUntrimmed(t, decoded) ==
    /\ objects' = [objects EXCEPT ![t].fallbackText = task[t].reaction.Name]
    /\ task' = [task EXCEPT ![t].pc = "Done", ![t].decoded = decoded]
    /\ UNCHANGED cache

\* fetchAndDecodeImage returned an error: log, fallback text, return
FetchFailed(t, decoded) ==
    /\ objects' = [objects EXCEPT ![t].fallbackText =
                                     Trim(task[t].reaction.Name, {Colon})]
    /\ task' = [task EXCEPT ![t].pc = "Done", ![t].decoded = decoded]
    /\ UNCHANGED cache

\* decoded, err := fetchAndDecodeImage(urlToFetch) when http.Get meets the
\* response resp, and the error branch
FetchAndDecodeWith(t, resp) ==
    LET decoded == fetchAndDecodeImage(task[t].urlToFetch, resp, t)
    IN  /\ calls' = [calls EXCEPT ![t].fetchAndDecodeImage =
                                      Append(@, task[t].urlToFetch)]
        /\ IF decoded.err
           THEN FetchFailed(t, decoded)
           ELSE /\ task' = [task EXCEPT ![t].pc = "Set",
                                        ![t].decoded = decoded]
                /\ UNCHANGED <<objects, cache>>
        /\ UNCHANGED <<cacheMutex, emojiIn, twemojiOut>>

\* decoded, err := fetchAndDecodeImage(urlToFetch), and the error branch
FetchAndDecode(t) ==
    /\ task[t].pc = "Fetch"
    /\ \E resp \in HttpResponses(task[t].urlToFetch) :
          FetchAndDecodeWith(t, resp)
    /\ UNCHANGED standalone

\* the value LoadImageForObject caches and assigns: decoded.Animated when it
\* is not nil, else decoded.Static
DecodedValue(decoded) ==
    IF decoded.Animated # Nil THEN decoded.Animated ELSE decoded.Static

\* SetLock that does not wait for the readers to leave
SetLockAmongReaders(t) ==
    /\ task[t].pc = "Set"
    /\ DecodedValue(task[t].decoded) # Nil
    /\ cacheMutex.writer = 0
    /\ cacheMutex' = [cacheMutex EXCEPT !.writer = t]
    /\ task' = [task EXCEPT ![t].pc = "SetLocked"]
    /\ UNCHANGED <<objects, cache, calls, emojiIn, twemojiOut, standalone>>

\* ImageManager.Set: im.cacheMutex.Lock()
SetLock(t) ==
    /\ task[t].pc = "Set"
    /\ DecodedValue(task[t].decoded) # Nil
    /\ cacheMutex.writer = 0
    /\ cacheMutex.readers = {}
    /\ cacheMutex' = [cacheMutex EXCEPT !.writer = t]
    /\ task' = [task EXCEPT ![t].pc = "SetLocked"]
    /\ UNCHANGED <<objects, cache, calls, emojiIn, twemojiOut, standalone>>

\* SetUnlock without the deferred Unlock
SetUnlockNoRelease(t) ==
    LET key == task[t].reaction.Name
        value == DecodedValue(task[t].decoded)
    IN  /\ task[t].pc = "SetLocked"
        /\ cache' = [k \in DOMAIN cache \cup {key} |->
                        IF k = key THEN value ELSE cache[k]]
        /\ calls' = [calls EXCEPT ![t].Set =
                                     Append(@, [key |-> key, value |-> value])]
        /\ task' = [task EXCEPT ![t].pc = "Assign"]
        /\ UNCHANGED <<objects, cacheMutex, emojiIn, twemojiOut, standalone>>

\* SetUnlock that keeps the entry a key already has
SetUnlockKeepFirst(t) ==
    LET key == task[t].reaction.Name
        value == DecodedValue(task[t].decoded)
    IN  /\ task[t].pc = "SetLocked"
        /\ cache' = [k \in DOMAIN cache \cup {key} |->
                        IF k \in DOMAIN cache THEN cache[k] ELSE value]
        /\ cacheMutex' = [cacheMutex EXCEPT !.writer = 0]
        /\ calls' = [calls EXCEPT ![t].Set =
                                     Append(@, [key |-> key, value |-> value])]
        /\ task' = [task EXCEPT ![t].pc = "Assign"]
        /\ UNCHANGED <<objects, emojiIn, twemojiOut, standalone>>

\* SetUnlock that replaces the map by one holding the new entry alone
SetUnlockFreshMap(t) ==
    LET key == task[t].reaction.Name
        value == DecodedValue(task[t].decoded)
    IN  /\ task[t].pc = "SetLocked"
        /\ cache' = [k \in {key} |-> value]
        /\ cacheMutex' = [cacheMutex EXCEPT !.writer = 0]
        /\ calls' = [calls EXCEPT ![t].Set =
                                     Append(@, [key |-> key, value |-> value])]
        /\ task' = [task EXCEPT ![t].pc = "Assign"]
        /\ UNCHANGED <<objects, emojiIn, twemojiOut, standalone>>

\* ImageManager.Set: im.cache[key] = value; the deferred Unlock
SetUnlock(t) ==
    LET key == task[t].reaction.Name
        value == DecodedValue(task[t].decoded)
    IN  /\ task[t].pc = "SetLocked"
        /\ cache' = [k \in DOMAIN cache \cup {key} |->
                        IF k = key THEN value ELSE cache[k]]
        /\ cacheMutex' = [cacheMutex EXCEPT !.writer = 0]
        /\ calls' = [calls EXCEPT ![t].Set =
                                     Append(@, [key |-> key, value |-> value])]
        /\ task' = [task EXCEPT ![t].pc = "Assign"]
        /\ UNCHANGED <<objects, emojiIn, twemojiOut, standalone>>

\* AssignDecoded that hands the asset to every object of the same Name
AssignDecodedToAll(t) ==
    LET decoded == task[t].decoded
    IN  /\ task[t].pc = "Assign"
        /\ objects' =
             [i \in DOMAIN objects |->
                 IF objects[i].reactionName # objects[t].reactionName
                 THEN objects[i]
                 ELSE IF decoded.Animated # Nil
                 THEN [objects[i] EXCEPT !.animatedImage = decoded.Animated]
                 ELSE [objects[i] EXCEPT !.image = decoded.Static]]
        /\ task' = [task EXCEPT ![t].pc = "Done"]
        /\ UNCHANGED <<cache, cacheMutex, calls, emojiIn, twemojiOut, standalone>>

\* obj.animatedImage = decoded.Animated, or obj.image = decoded.Static
AssignDecoded(t) ==
    LET decoded == task[t].decoded
    IN  /\ task[t].pc = "Assign"
        /\ objects' =
             IF decoded.Animated # Nil
             THEN [objects EXCEPT ![t].animatedImage = decoded.Animated]
             ELSE [objects EXCEPT ![t].image = decoded.Static]
        /\ task' = [task EXCEPT ![t].pc = "Done"]
        /\ UNCHANGED <<cache, cacheMutex, calls, emojiIn, twemojiOut, standalone>>

\* the steps of the load tasks, whatever the events
LoadStep ==
    \/ \E t \in Tasks : GetRLock(t)
    \/ \E t \in Tasks : GetRUnlock(t)
    \/ \E t \in Tasks : CacheHit(t)
    \/ \E t \in Tasks : DetermineURL(t)
    \/ \E t \in Tasks : FetchAndDecode(t)
    \/ \E t \in Tasks : SetLock(t)
    \/ \E t \in Tasks : SetUnlock(t)
    \/ \E t \in Tasks : AssignDecoded(t)

\* a feed that repeats two events without URL
RepeatedEvents == [Name : {ThumbsUp, CustomA}, URL : {""}]

NextRepeat ==
    \/ \E reaction \in RepeatedEvents :
          Len(objects) < MaxRepeats /\ spawnReaction(reaction)
    \/ LoadStep

SpecRepeat == Init /\ [][NextRepeat]_vars

Next ==
    \/ \E reaction \in ReactionInfo :
          Len(objects) < MaxEvents /\ spawnReaction(reaction)
    \/ LoadStep

Spec == Init /\ [][Next]_vars

-----------------------------------------------------------------------------
(* The loads of events whose names are delimiters only, or empty *)

\* ":::" without and with a URL, the empty name, and ":a:"
DelimiterEvents ==
    {[Name |-> <<Colon, Colon, Colon>>, URL |-> ""],
     [Name |-> <<Colon, Colon, Colon>>, URL |-> "https://u1/a.png"],
     [Name |-> <<>>, URL |-> ""],
     [Name |-> CustomA, URL |-> ""]}

NextDelimiters ==
    \/ \E reaction \in DelimiterEvents :
          Len(objects) < MaxEvents /\ spawnReaction(reaction)
    \/ LoadStep

SpecDelimiters == Init /\ [][NextDelimiters]_vars

\* the steps of task t inside ImageManager.Get and ImageManager.Set
CacheStep(t) ==
    /\ t \in Tasks
    /\ \/ GetRLock(t)
       \/ GetRUnlock(t)
       \/ SetLock(t)
       \/ SetUnlock(t)

\* a goroutine inside Get or Set runs on: it takes the lock when the lock
\* is free for it and goes on to the deferred unlock (the http calls between
\* Get and Set may take for ever, no fairness is assumed for them)
NextFair ==
    \/ \E reaction \in RepeatedEvents :
          Len(objects) < MaxEvents /\ spawnReaction(reaction)
    \/ LoadStep

SpecFair ==
    Init /\ [][NextFair]_vars /\ \A t \in 1..MaxEvents : WF_vars(CacheStep(t))

-----------------------------------------------------------------------------
(* emojiToTwemojiURL on its own *)

\* the runes of the symbols: U+1F44D, U+2764, U+FE0F and 'G'
EmojiRunes == {128077, 10084, VariationSelector, 71}

\* the sequences over S of length at most n
SeqUpTo(S, n) == UNION {[1..k -> S] : k \in 0..n}

InitEmoji ==
    /\ InitGame
    /\ emojiIn \in SeqUpTo(EmojiRunes, MaxEmojiLen)
    /\ twemojiOut = ""
    /\ InitStandalone

CallEmojiToTwemojiURL ==
    /\ twemojiOut = ""
    /\ twemojiOut' = emojiToTwemojiURL(emojiIn)
    /\ UNCHANGED <<objects, task, cache, cacheMutex, calls, emojiIn, standalone>>

NextEmoji == CallEmojiToTwemojiURL

SpecEmoji == InitEmoji /\ [][NextEmoji]_vars

-----------------------------------------------------------------------------
(* ImageManager.Get and ImageManager.Set called one after the other *)

\* the one goroutine that calls
Caller == 1

\* the keys and the values of the calls
CacheKeys == {ThumbsUp, CustomA}

CacheValues ==
    {NewAsset("Static", "https://u1/a.png", 1),
     NewAsset("Animated", "https://u2/a.gif", 2)}

\* the caller between two calls
IdleCaller == [NewTask([Name |-> ThumbsUp, URL |-> ""]) EXCEPT !.pc = "Idle"]

InitCache ==
    /\ objects = <<>>
    /\ task = <<IdleCaller>>
    /\ cache = [k \in {} |-> Nil]
    /\ cacheMutex = [readers |-> {}, writer |-> 0]
    /\ calls = <<NoCalls>>
    /\ emojiIn = <<>>
    /\ twemojiOut = ""
    /\ InitStandalone

\* cachedItem, exists := im.Get(key): the call
CallGet(key) ==
    /\ task[Caller].pc = "Idle"
    /\ Len(history) < MaxCalls
    /\ task' = [task EXCEPT ![Caller] = NewTask([Name |-> key, URL |-> ""])]
    /\ calls' = [calls EXCEPT ![Caller] = NoCalls]
    /\ UNCHANGED <<objects, cache, cacheMutex, emojiIn, twemojiOut, standalone>>

\* im.Set(key, value): the call
CallSet(key, value) ==
    /\ task[Caller].pc = "Idle"
    /\ Len(history) < MaxCalls
    /\ task' = [task EXCEPT ![Caller] =
                    [NewTask([Name |-> key, URL |-> ""]) EXCEPT
                        !.pc = "Set",
                        !.decoded = IF value.type = "Animated"
                                    THEN DecodedImage(Nil, value)
                                    ELSE DecodedImage(value, Nil)]]
    /\ calls' = [calls EXCEPT ![Caller] = NoCalls]
    /\ UNCHANGED <<objects, cache, cacheMutex, emojiIn, twemojiOut, standalone>>

\* Get has returned (item, exists) to the caller
GetReturned ==
    /\ task[Caller].pc = "Checked"
    /\ history' = Append(history, [op |-> "Get",
                                    key |-> task[Caller].reaction.Name,
                                    value |-> task[Caller].cachedItem,
                                    found |-> task[Caller].exists])
    /\ task' = [task EXCEPT ![Caller].pc = "Idle"]
    /\ UNCHANGED <<objects, cache, cacheMutex, calls, emojiIn, twemojiOut,
                   imageIn, imageOut>>

\* Set has returned to the caller
SetReturned ==
    /\ task[Caller].pc = "Assign"
    /\ history' = Append(history, [op |-> "Set",
                                    key |-> task[Caller].reaction.Name,
                                    value |-> DecodedValue(task[Caller].decoded),
                                    found |-> TRUE])
    /\ task' = [task EXCEPT ![Caller].pc = "Idle"]
    /\ UNCHANGED <<objects, cache, cacheMutex, calls, emojiIn, twemojiOut,
                   imageIn, imageOut>>

NextCache ==
    \/ \E key \in CacheKeys : CallGet(key)
    \/ \E key \in CacheKeys : \E value \in CacheValues : CallSet(key, value)
    \/ GetRLock(Caller)
    \/ GetRUnlock(Caller)
    \/ GetReturned
    \/ SetLock(Caller)
    \/ SetUnlock(Caller)
    \/ SetReturned

SpecCache == InitCache /\ [][NextCache]_vars

-----------------------------------------------------------------------------
(* preRenderGifAnimation and preRenderApngAnimation on their own *)

\* the GIFs fetchAndDecodeImage hands to preRenderGifAnimation have two
\* sub-images or more
InitGif ==
    /\ InitGame
    /\ emojiIn = <<>>
    /\ twemojiOut = ""
    /\ history = <<>>
    /\ GifIn(2, MaxGifFrames)
    /\ imageOut = NotCalled

CallPreRenderGifAnimation ==
    /\ ~imageOut.called
    /\ imageOut' = [called |-> TRUE, anim |-> preRenderGifAnimation(imageIn.gif)]
    /\ UNCHANGED <<objects, task, cache, cacheMutex, calls, emojiIn, twemojiOut,
                   history, imageIn>>

NextGif == CallPreRenderGifAnimation

SpecGif == InitGif /\ [][NextGif]_vars

\* the APNGs fetchAndDecodeImage hands to preRenderApngAnimation have two
\* frames or more beside the default image
InitApng ==
    /\ InitGame
    /\ emojiIn = <<>>
    /\ twemojiOut = ""
    /\ history = <<>>
    /\ ApngIn(2, MaxApngFrames)
    /\ Len(RealFrames(imageIn.apng)) >= 2
    /\ imageOut = NotCalled

CallPreRenderApngAnimation ==
    /\ ~imageOut.called
    /\ imageOut' = [called |-> TRUE,
                    anim |-> preRenderApngAnimation(imageIn.apng, imageIn.width),
                    before |-> ApngRun(imageIn.apng, imageIn.width).before]
    /\ UNCHANGED <<objects, task, cache, cacheMutex, calls, emojiIn, twemojiOut,
                   history, imageIn>>

NextApng == CallPreRenderApngAnimation

SpecApng == InitApng /\ [][NextApng]_vars

-----------------------------------------------------------------------------
(* The three compositors side by side *)

\* the animations fetchAndDecodeImage hands to a compositor: a GIF of two
\* sub-images or more, an APNG of two frames or more beside the default
\* image, a WebP of two frames or more
InitCompose ==
    /\ InitGame
    /\ emojiIn = <<>>
    /\ twemojiOut = ""
    /\ history = <<>>
    /\ \/ GifIn(2, MaxGifFrames)
       \/ ApngIn(2, MaxApngFrames) /\ Len(RealFrames(imageIn.apng)) >= 2
       \/ WebpIn(2, MaxWebpFrames)
    /\ imageOut = NotCalled

ComposeGif ==
    /\ "gif" \in DOMAIN imageIn
    /\ CallPreRenderGifAnimation

ComposeApng ==
    /\ "apng" \in DOMAIN imageIn
    /\ CallPreRenderApngAnimation

ComposeWebp ==
    /\ "webp" \in DOMAIN imageIn
    /\ ~imageOut.called
    /\ imageOut' = [called |-> TRUE, anim |-> preRenderWebpAnimation(imageIn.webp)]
    /\ UNCHANGED <<objects, task, cache, cacheMutex, calls, emojiIn, twemojiOut,
                   history, imageIn>>

NextCompose == ComposeGif \/ ComposeApng \/ ComposeWebp

SpecCompose == InitCompose /\ [][NextCompose]_vars

-----------------------------------------------------------------------------
(* fetchAndDecodeImage on its own *)

\* n opaque frames over the whole canvas
OpaqueFrames(n) == [i \in 1..n |-> [rect |-> Rect(0, CanvasWidth), holes |-> {}]]

\* a GIF without sub-images: gif.Decode finds no image in it
EmptyGif ==
    ImageFile("gif", TRUE, TRUE, FALSE,
              [Config |-> [Width |-> CanvasWidth], Image |-> <<>>, Delay |-> <<>>,
               Disposal |-> <<>>],
              StillImage)

\* the call fetchAndDecodeImage(url) meeting the response resp
Fetch(resp) == [called |-> FALSE, resp |-> resp]

\* the responses without a picture
FetchNothing ==
    \E resp \in {NoResponse(0), NoResponse(404), Unreadable(PlainPng),
                 Response(CorruptFile)} :
        imageIn = Fetch(resp)

\* the GIF files: one gif.DecodeAll rejects, one without sub-images, and
\* those of one sub-image or more
FetchGif ==
    \/ \E staticOk \in BOOLEAN :
           imageIn = Fetch(Response(ImageFile("gif", TRUE, FALSE, staticOk,
                                              NoAnimation, StillImage)))
    \/ imageIn = Fetch(Response(EmptyGif))
    \/ \E n \in 1..MaxGifFrames :
           \E disposal \in {[i \in 1..n |-> DisposalNone],
                            [i \in 1..n |-> DisposalBackground]} :
               \E delay \in DelayProfiles(n) :
                   imageIn = Fetch(Response(GifFile(
                                 DecodedGif(n, OpaqueFrames(n), disposal, delay))))

\* the PNG files: one apng.DecodeConfig rejects, one apng.DecodeAll rejects,
\* and the animations of one frame or more, of frames as wide as the canvas,
\* the default image among them or not; png.Decode is called, and can fail,
\* when fewer than two frames are left
FetchPng ==
    \/ \E staticOk \in BOOLEAN :
           imageIn = Fetch(Response(ImageFile("png", FALSE, TRUE, staticOk,
                                              NoAnimation, StillImage)))
    \/ \E staticOk \in BOOLEAN :
           imageIn = Fetch(Response(ImageFile("png", TRUE, FALSE, staticOk,
                                              NoAnimation, StillImage)))
    \/ \E n \in 1..MaxApngFrames :
         \E shape \in [1..n -> {s \in FrameShapes : s.rect = Rect(0, CanvasWidth)}] :
           \E dispose \in [1..n -> {DISPOSE_OP_NONE, DISPOSE_OP_BACKGROUND,
                                     DISPOSE_OP_PREVIOUS}] :
             \E blend \in {BLEND_OP_SOURCE, BLEND_OP_OVER} :
               \E delay \in ApngDelayProfiles(n) :
                 \E hasDefault \in BOOLEAN :
                   LET animation == DecodedApng(n, shape, dispose, blend, delay,
                                                hasDefault)
                   IN  \E staticOk \in IF Len(RealFrames(animation)) <= 1
                                       THEN BOOLEAN ELSE {TRUE} :
                           imageIn = Fetch(Response(ApngFile(animation, staticOk)))

\* the WebP files: one webpanimation.DecodeAll rejects, and the animations
\* of one frame or more
FetchWebp ==
    \/ \E staticOk \in BOOLEAN :
           imageIn = Fetch(Response(ImageFile("webp", TRUE, FALSE, staticOk,
                                              NoAnimation, StillImage)))
    \/ \E n \in 1..MaxWebpFrames :
           \E holes \in [1..n -> {{}, {0}}] :
               \E delay \in DelayProfiles(n) :
                   \E staticOk \in BOOLEAN :
                       imageIn = Fetch(Response(WebpFile(
                                     DecodedWebp(n, holes, delay), staticOk)))

\* a file of another type that image.Decode accepts
FetchOther ==
    imageIn = Fetch(Response(ImageFile("other", FALSE, FALSE, TRUE, NoAnimation,
                                       StillImage)))

InitDecode ==
    /\ InitGame
    /\ emojiIn = <<>>
    /\ twemojiOut = ""
    /\ history = <<>>
    /\ FetchNothing \/ FetchGif \/ FetchPng \/ FetchWebp \/ FetchOther
    /\ imageOut = NotCalled

CallFetchAndDecodeImage ==
    /\ ~imageOut.called
    /\ imageOut' = [called |-> TRUE, result |-> FetchedImage(imageIn.resp)]
    /\ UNCHANGED <<objects, task, cache, cacheMutex, calls, emojiIn, twemojiOut,
                   history, imageIn>>

NextDecode == CallFetchAndDecodeImage

SpecDecode == InitDecode /\ [][NextDecode]_vars

-----------------------------------------------------------------------------
(* fetchAndDecodeImage on animated GIFs whose delays vary *)

\* the delays a sub-image can carry, in hundredths of a second: none, a
\* short one, and the longest the 16 bits of the file format hold
GifDelayValues == {0, 7, 65535}

InitGifDelays ==
    /\ InitGame
    /\ emojiIn = <<>>
    /\ twemojiOut = ""
    /\ history = <<>>
    /\ \E n \in 2..MaxDelayFrames :
           \E delay \in [1..n -> GifDelayValues] :
               imageIn = Fetch(Response(GifFile(
                             DecodedGif(n, OpaqueFrames(n),
                                        [i \in 1..n |-> DisposalNone], delay))))
    /\ imageOut = NotCalled

SpecGifDelays == InitGifDelays /\ [][NextDecode]_vars

-----------------------------------------------------------------------------
(* An APNG decoded, assigned to an object and played by Game.Update *)

\* the delays an APNG frame can carry, numerator and denominator in seconds:
\* hundredths with the denominator left 0, thirds, halves, a delay that
\* falls halfway between two milliseconds (323 / 80 s), one below a
\* millisecond, no delay, and the longest one
ApngDelayValues ==
    {[num |-> 1, den |-> 0], [num |-> 10, den |-> 0], [num |-> 1, den |-> 3],
     [num |-> 2, den |-> 3], [num |-> 1, den |-> 2], [num |-> 323, den |-> 80],
     [num |-> 1, den |-> 2000], [num |-> 0, den |-> 1], [num |-> 65535, den |-> 1]}

\* the event whose image is played
PlayedReaction == [Name |-> CustomA, URL |-> "https://u1/a.png"]

\* two frames with delays of their own, behind the default image or not
InitPlay ==
    /\ InitGame
    /\ emojiIn = <<>>
    /\ twemojiOut = ""
    /\ history = <<>>
    /\ \E hasDefault \in BOOLEAN :
         LET n == IF hasDefault THEN 3 ELSE 2
         IN  \E delay \in [1..n -> ApngDelayValues] :
               /\ hasDefault => delay[1] = [num |-> 1, den |-> 0]
               /\ imageIn = Fetch(Response(ApngFile(
                                DecodedApng(n, OpaqueFrames(n),
                                            [i \in 1..n |-> DISPOSE_OP_NONE],
                                            BLEND_OP_SOURCE, delay, hasDefault),
                                TRUE)))
    /\ imageOut = NotCalled

\* decoded, err := fetchAndDecodeImage(urlToFetch) and
\* obj.animatedImage = decoded.Animated, for the one object of the game
LoadPlayed ==
    /\ ~imageOut.called
    /\ imageOut' = [called |-> TRUE, result |-> FetchedImage(imageIn.resp)]
    /\ objects' = <<[NewReactionObject(PlayedReaction) EXCEPT
                        !.animatedImage = FetchedImage(imageIn.resp).Animated]>>
    /\ UNCHANGED <<task, cache, cacheMutex, calls, emojiIn, twemojiOut, history,
                   imageIn>>

\* 1000.0 / 60.0
TickMilliseconds == Float64Div(1000, 60)

\* the frame advance that counts on past the last frame
AdvanceFrameUnwrapped(o) ==
    IF o.animatedImage # Nil /\ Len(o.animatedImage.Frames) > 0
    THEN LET accumulated == Float64Add(o.frameTimeAccumulator, TickMilliseconds)
             given == Float64(o.animatedImage.FrameDelays[o.currentFrame + 1])
             delayMs == IF Float64IsZero(given) THEN Float64(100) ELSE given
         IN  IF Float64Geq(accumulated, delayMs)
             THEN [o EXCEPT !.frameTimeAccumulator = Float64Sub(accumulated, delayMs),
                            !.currentFrame = o.currentFrame + 1]
             ELSE [o EXCEPT !.frameTimeAccumulator = accumulated]
    ELSE o

\* the frame advance of Game.Update for the object o
AdvanceFrame(o) ==
    IF o.animatedImage # Nil /\ Len(o.animatedImage.Frames) > 0
    THEN LET accumulated == Float64Add(o.frameTimeAccumulator, TickMilliseconds)
             given == Float64(o.animatedImage.FrameDelays[o.currentFrame + 1])
             delayMs == IF Float64IsZero(given) THEN Float64(100) ELSE given
         IN  IF Float64Geq(accumulated, delayMs)
             THEN [o EXCEPT !.frameTimeAccumulator = Float64Sub(accumulated, delayMs),
                            !.currentFrame =
                                (o.currentFrame + 1) % Len(o.animatedImage.Frames)]
             ELSE [o EXCEPT !.frameTimeAccumulator = accumulated]
    ELSE o

\* one tick of Game.Update with no event waiting: every object is advanced;
\* history keeps the frame each tick leaves the played object on
UpdatePlayed ==
    /\ imageOut.called
    /\ Len(history) < MaxTicks
    /\ objects' = [i \in 1..Len(objects) |-> AdvanceFrame(objects[i])]
    /\ history' = Append(history, objects'[1].currentFrame)
    /\ UNCHANGED <<task, cache, cacheMutex, calls, emojiIn, twemojiOut, imageIn,
                   imageOut>>

NextPlay == LoadPlayed \/ UpdatePlayed

SpecPlay == InitPlay /\ [][NextPlay]_vars

-----------------------------------------------------------------------------
(* The load tasks, the status of every response kept *)

\* the statuses other than 200 a server answers with: a redirection that is
\* not followed, a client error and a server error
RefusedStatuses == {304, 404, 500}

\* fetchAndDecodeImage of load t; history keeps, load by load, the status of
\* the response (0 when there is none)
FetchAndDecodeLogged(t) ==
    /\ task[t].pc = "Fetch"
    /\ \E resp \in HttpResponses(task[t].urlToFetch)
                     \cup {Refused(status, BodyAt(task[t].urlToFetch)) :
                               status \in RefusedStatuses} :
          /\ FetchAndDecodeWith(t, resp)
          /\ history' = [u \in DOMAIN history \cup {t} |->
                            IF u = t THEN resp.status ELSE history[u]]
    /\ UNCHANGED <<imageIn, imageOut>>

\* a feed of a standard symbol and a custom identifier, with the URL of a
\* GIF or without URL
LoggedEvents ==
    {[Name |-> ThumbsUp, URL |-> ""], [Name |-> CustomA, URL |-> ""],
     [Name |-> CustomA, URL |-> "https://u2/a.gif"]}

NextLogged ==
    \/ \E reaction \in LoggedEvents :
          Len(objects) < MaxEvents /\ spawnReaction(reaction)
    \/ \E t \in Tasks : GetRLock(t)
    \/ \E t \in Tasks : GetRUnlock(t)
    \/ \E t \in Tasks : CacheHit(t)
    \/ \E t \in Tasks : DetermineURL(t)
    \/ \E t \in Tasks : FetchAndDecodeLogged(t)
    \/ \E t \in Tasks : SetLock(t)
    \/ \E t \in Tasks : SetUnlock(t)
    \/ \E t \in Tasks : AssignDecoded(t)

SpecLogged == Init /\ [][NextLogged]_vars

-----------------------------------------------------------------------------
(* stripTRNSFromRGBA: a byte stream is a sequence of bytes 0..255 *)

\* "\x89PNG\r\n\x1a\n"
PNGSignature == <<137, 80, 78, 71, 13, 10, 26, 10>>

\* the chunk types "IHDR", "tRNS", "IEND", "IDAT", "PLTE" and "tEXt"
IHDR == <<73, 72, 68, 82>>

tRNS == <<116, 82, 78, 83>>

IEND == <<73, 69, 78, 68>>

IDAT == <<73, 68, 65, 84>>

PLTE == <<80, 76, 84, 69>>

tEXt == <<116, 69, 88, 116>>

\* data[lo:hi] of Go, offsets counted from 0
Slice(data, lo, hi) == SubSeq(data, lo + 1, hi)

\* binary.BigEndian.Uint32(b)
Uint32(b) == ((b[1] * 256 + b[2]) * 256 + b[3]) * 256 + b[4]

\* the test of the chunk loop that never skips a chunk
SkipsChunkNever(chunkType, isRGBA) == FALSE

\* chunkType == "tRNS" && isRGBA
SkipsChunk(chunkType, isRGBA) == chunkType = tRNS /\ isRGBA

\* the chunk loop from offset on, dest being what is written so far
RECURSIVE StripLoop(_, _, _, _)
StripLoop(data, offset, isRGBA, dest) ==
    IF ~(offset < Len(data)) THEN [err |-> FALSE, out |-> dest]
    ELSE IF offset + 8 > Len(data) THEN [err |-> TRUE, out |-> <<>>]
    ELSE LET length == Uint32(Slice(data, offset, offset + 4))
             chunkType == Slice(data, offset + 4, offset + 8)
             chunkEnd == offset + 8 + length + 4
         IN  IF chunkEnd > Len(data) THEN [err |-> TRUE, out |-> <<>>]
             ELSE LET chunk == Slice(data, offset, chunkEnd)
                      rgba == \/ isRGBA
                              \/ /\ chunkType = IHDR
                                 /\ length = 13
                                 /\ data[offset + 8 + 9 + 1] = 6
                      written == IF chunkType = IHDR THEN dest \o chunk
                                 ELSE IF SkipsChunk(chunkType, isRGBA) THEN dest
                                 ELSE dest \o chunk
                  IN  IF chunkType = IEND
                      THEN [err |-> FALSE,
                            out |-> written \o Slice(data, chunkEnd, Len(data))]
                      ELSE StripLoop(data, chunkEnd, rgba, written)

\* stripTRNSFromRGBA on the bytes data: the bytes read from the reader it
\* returns, or the error
stripTRNSFromRGBA(data) ==
    IF Len(data) < 8 \/ Slice(data, 0, 8) # PNGSignature
    THEN [err |-> FALSE, out |-> data]
    ELSE StripLoop(data, 8, FALSE, Slice(data, 0, 8))

\* a chunk: its type, its data and the four bytes of its CRC
Chunk(type, data, crc) == [type |-> type, data |-> data, crc |-> crc]

\* the bytes of a chunk: length, type, data, CRC
EncodeChunk(c) == <<0, 0, 0, Len(c.data)>> \o c.type \o c.data \o c.crc

RECURSIVE EncodeChunks(_)
EncodeChunks(chunks) ==
    IF chunks = <<>> THEN <<>>
    ELSE EncodeChunk(Head(chunks)) \o EncodeChunks(Tail(chunks))

\* the bytes of a PNG stream of the chunks given
EncodePNG(chunks) == PNGSignature \o EncodeChunks(chunks)

\* the header of an image one pixel wide and high, eight bits deep
HeaderChunk(colorType) ==
    Chunk(IHDR, <<0, 0, 0, 1, 0, 0, 0, 1, 8, colorType, 0, 0, 0>>, <<1, 1, 1, 1>>)

EndChunk == Chunk(IEND, <<>>, <<174, 66, 96, 130>>)

\* the colour types of a header: greyscale, truecolour, palette, greyscale
\* with alpha, truecolour with alpha
ColorTypes == {0, 2, 3, 4, 6}

\* the chunks between header and end, the i-th of a stream: an empty tRNS, a
\* tRNS of two bytes, image data, a palette, and a text whose data are the
\* letters of "tRNS"
MiddleChunks(i) ==
    {Chunk(tRNS, <<>>, <<i, 2, 2, 2>>), Chunk(tRNS, <<0, i>>, <<i, 3, 3, 3>>),
     Chunk(IDAT, <<i>>, <<i, 4, 4, 4>>), Chunk(PLTE, <<i, i, i>>, <<i, 5, 5, 5>>),
     Chunk(tEXt, tRNS, <<i, 6, 6, 6>>)}

\* imageIn is a well-formed PNG stream: header, up to MaxChunks chunks, end
WellFormedPNG ==
    \E colorType \in ColorTypes :
        \E n \in 0..MaxChunks :
            \E kind \in [1..n -> 1..5] :
                LET middle == [i \in 1..n |->
                                  CHOOSE c \in MiddleChunks(i) :
                                      c.crc[2] = kind[i] + 1]
                    chunks == <<HeaderChunk(colorType)>> \o middle \o <<EndChunk>>
                IN  imageIn = [called |-> FALSE, wellFormed |-> TRUE,
                               chunks |-> chunks, data |-> EncodePNG(chunks)]

\* a stream with a tRNS chunk between header and end
SampleChunks == <<HeaderChunk(6), Chunk(tRNS, <<0, 1>>, <<1, 3, 3, 3>>), EndChunk>>

\* imageIn is not a well-formed PNG stream: too short, without the PNG
\* signature, cut inside a chunk header or inside a chunk, with a chunk
\* length past the end, with bytes after the end chunk, or without header;
\* with a chunk length of 2^30, with a tRNS chunk before the header, with
\* two headers, with a tRNS chunk after the end chunk, without end chunk,
\* or the signature alone
MalformedPNG ==
    \E data \in {<<137, 80, 78>>,
                 <<71, 73, 70, 56, 57, 97, 1, 0, 1, 0>>,
                 SubSeq(EncodePNG(SampleChunks), 1, 8 + 25 + 5),
                 SubSeq(EncodePNG(SampleChunks), 1, 8 + 25 + 10),
                 PNGSignature \o EncodeChunk(HeaderChunk(6)) \o <<0, 0, 1, 0>> \o tRNS
                     \o <<0, 1, 1, 3, 3, 3>> \o EncodeChunk(EndChunk),
                 EncodePNG(SampleChunks) \o tRNS,
                 EncodePNG(Tail(SampleChunks)),
                 PNGSignature \o EncodeChunk(HeaderChunk(6)) \o <<64, 0, 0, 0>> \o tRNS
                     \o <<0, 1, 1, 3, 3, 3>> \o EncodeChunk(EndChunk),
                 EncodePNG(<<SampleChunks[2], HeaderChunk(6), SampleChunks[2],
                             EndChunk>>),
                 EncodePNG(<<HeaderChunk(2), SampleChunks[2], HeaderChunk(6),
                             SampleChunks[2], EndChunk>>),
                 EncodePNG(SampleChunks) \o EncodeChunk(SampleChunks[2]),
                 EncodePNG(SubSeq(SampleChunks, 1, 2)),
                 PNGSignature} :
        imageIn = [called |-> FALSE, wellFormed |-> FALSE, chunks |-> <<>>,
                   data |-> data]

InitStrip ==
    /\ InitGame
    /\ emojiIn = <<>>
    /\ twemojiOut = ""
    /\ history = <<>>
    /\ WellFormedPNG \/ MalformedPNG
    /\ imageOut = NotCalled

CallStripTRNSFromRGBA ==
    /\ ~imageOut.called
    /\ imageOut' = [called |-> TRUE, result |-> stripTRNSFromRGBA(imageIn.data)]
    /\ UNCHANGED <<objects, task, cache, cacheMutex, calls, emojiIn, twemojiOut,
                   history, imageIn>>

NextStrip == CallStripTRNSFromRGBA

SpecStrip == InitStrip /\ [][NextStrip]_vars

-----------------------------------------------------------------------------
(* stripTRNSFromRGBA pass by pass of its chunk loop *)

\* chunkEnd with the chunk data alone counted
ChunkEndOfData(offset, length) == offset + length

\* chunkEnd := offset + 8 + int(length) + 4; int is 64 bits wide, so that
\* the sum of an offset into data and a length below 2^32 does not wrap
ChunkEnd(offset, length) == offset + 8 + length + 4

\* the state of the loop: offset, isRGBA and dest, and passes, the number of
\* times the loop body was entered
Looping(offset, isRGBA, dest, passes) ==
    [called |-> TRUE, done |-> FALSE, err |-> FALSE, offset |-> offset,
     isRGBA |-> isRGBA, out |-> dest, passes |-> passes]

\* the function has returned out, or an error
StripReturned(err, out, passes) ==
    [called |-> TRUE, done |-> TRUE, err |-> err, offset |-> 0,
     isRGBA |-> FALSE, out |-> out, passes |-> passes]

\* the signature test and the first write to dest
StripBegin ==
    /\ ~imageOut.called
    /\ LET data == imageIn.data
       IN  imageOut' = IF Len(data) < 8 \/ Slice(data, 0, 8) # PNGSignature
                       THEN StripReturned(FALSE, data, 0)
                       ELSE Looping(8, FALSE, Slice(data, 0, 8), 0)
    /\ UNCHANGED <<objects, task, cache, cacheMutex, calls, emojiIn, twemojiOut,
                   history, imageIn>>

\* the loop test and one pass of the loop body
StripPass ==
    /\ imageOut.called
    /\ ~imageOut.done
    /\ LET data == imageIn.data
           offset == imageOut.offset
           dest == imageOut.out
           passes == imageOut.passes + 1
       IN  imageOut' =
               IF ~(offset < Len(data)) THEN StripReturned(FALSE, dest, imageOut.passes)
               ELSE IF offset + 8 > Len(data) THEN StripReturned(TRUE, <<>>, passes)
               ELSE LET length == Uint32(Slice(data, offset, offset + 4))
                        chunkType == Slice(data, offset + 4, offset + 8)
                        chunkEnd == ChunkEnd(offset, length)
                    IN  IF chunkEnd > Len(data) THEN StripReturned(TRUE, <<>>, passes)
                        ELSE LET chunk == Slice(data, offset, chunkEnd)
                                 rgba == \/ imageOut.isRGBA
                                         \/ /\ chunkType = IHDR
                                            /\ length = 13
                                            /\ data[offset + 8 + 9 + 1] = 6
                                 written ==
                                     IF chunkType = IHDR THEN dest \o chunk
                                     ELSE IF SkipsChunk(chunkType, imageOut.isRGBA)
                                     THEN dest
                                     ELSE dest \o chunk
                             IN  IF chunkType = IEND
                                 THEN StripReturned(FALSE,
                                               written \o Slice(data, chunkEnd,
                                                                Len(data)),
                                               passes)
                                 ELSE Looping(chunkEnd, rgba, written, passes)
    /\ UNCHANGED <<objects, task, cache, cacheMutex, calls, emojiIn, twemojiOut,
                   history, imageIn>>

NextStripLoop == StripBegin \/ StripPass

\* the loop runs in the goroutine of its caller, which is scheduled again
\* and again
SpecStripLoop == InitStrip /\ [][NextStripLoop]_vars /\ WF_vars(NextStripLoop)

-----------------------------------------------------------------------------
(* The PNG branch of fetchAndDecodeImage on byte streams: which bytes the
   decoders read *)

\* processedData that is the body as it came
ProcessedDataAsFetched(data) == data

\* processedData: the body, or what stripTRNSFromRGBA made of it
ProcessedData(data) ==
    LET clean == stripTRNSFromRGBA(data)
    IN  IF clean.err THEN data ELSE clean.out

\* one decoder reading bytes
ReadBy(decoder, bytes) == [decoder |-> decoder, bytes |-> bytes]

\* the readers the PNG branch opens, in order, when apng.DecodeConfig and
\* apng.DecodeAll answer configOk and animOk and the animation has more than
\* one frame or not
PngBranchReads(data, configOk, animOk, animated) ==
    LET processedData == ProcessedData(data)
    IN  <<ReadBy("apng.DecodeConfig", processedData)>>
        \o (IF ~configOk THEN <<>>
            ELSE <<ReadBy("apng.DecodeAll", processedData)>>
                 \o (IF ~animOk THEN <<ReadBy("image.Decode", processedData)>>
                     ELSE IF ~animated
                     THEN <<ReadBy("image.Decode", processedData)>>
                     ELSE <<>>))

\* a body http.DetectContentType calls a PNG
InitSanitise ==
    /\ InitStrip
    /\ Len(imageIn.data) >= 8
    /\ Slice(imageIn.data, 0, 8) = PNGSignature

CallPngBranch ==
    /\ ~imageOut.called
    /\ \E configOk \in BOOLEAN, animOk \in BOOLEAN, animated \in BOOLEAN :
           imageOut' = [called |-> TRUE,
                        reads |-> PngBranchReads(imageIn.data, configOk, animOk,
                                                 animated)]
    /\ UNCHANGED <<objects, task, cache, cacheMutex, calls, emojiIn, twemojiOut,
                   history, imageIn>>

NextSanitise == CallPngBranch

SpecSanitise == InitSanitise /\ [][NextSanitise]_vars

-----------------------------------------------------------------------------
(* The render loop beside the load tasks: Game.Update, Game.Draw *)

\* reactionChan holds no event at this tick
\* the events reactionChan delivers: a custom emoji the resolver is asked
\* for, and the same emoji with its URL in the event
GameEvents ==
    {[Name |-> CustomA, URL |-> ""], [Name |-> CustomA, URL |-> "https://u2/a.gif"]}

NoEvent == [Name |-> <<>>, URL |-> "no event"]

\* the *AnimatedImage behind the handle asset: what the bytes at its URL
\* decode to
AnimationOf(asset) == DecodeData(BodyAt(asset.url)).Animated

\* the body of the loop of Update for the object o; position, velocity and
\* lifetime are left out, and with them the removal of the object, which
\* comes after minLifetime = 300 ticks at the earliest
UpdateObject(o) ==
    IF o.animatedImage = Nil THEN o
    ELSE LET played == AdvanceFrame([o EXCEPT !.animatedImage =
                                                 AnimationOf(o.animatedImage)])
         IN  [o EXCEPT !.currentFrame = played.currentFrame,
                       !.frameTimeAccumulator = played.frameTimeAccumulator]

\* Update that makes the fetch for the event's URL itself before it starts
\* the load task
UpdateFetching(reaction) ==
    LET spawns == reaction # NoEvent /\ Len(objects) < maxObjects
        spawned == IF spawns THEN Append(objects, NewReactionObject(reaction))
                   ELSE objects
    IN  /\ Len(history) < MaxUpdates
        /\ objects' = [i \in 1..Len(spawned) |-> UpdateObject(spawned[i])]
        /\ task' = IF spawns THEN Append(task, NewTask(reaction)) ELSE task
        /\ calls' = IF spawns
                    THEN Append(calls, [NoCalls EXCEPT !.fetchAndDecodeImage =
                                                         <<reaction.URL>>])
                    ELSE calls
        /\ history' = Append(history, reaction # NoEvent)
        /\ imageOut' = NotCalled
        /\ UNCHANGED <<cache, cacheMutex, emojiIn, twemojiOut, imageIn>>

\* Game.Update when reactionChan holds the event reaction, or NoEvent: the
\* select with its default branch, spawnReaction with its "go" statement,
\* then the loop over the objects; history keeps whether each call took an
\* event
\* Update whose spawnReaction does not look at len(g.objects)
UpdateUncapped(reaction) ==
    LET spawns == reaction # NoEvent
        spawned == IF spawns THEN Append(objects, NewReactionObject(reaction))
                   ELSE objects
    IN  /\ Len(history) < MaxUpdates
        /\ objects' = [i \in 1..Len(spawned) |-> UpdateObject(spawned[i])]
        /\ task' = IF spawns THEN Append(task, NewTask(reaction)) ELSE task
        /\ calls' = IF spawns THEN Append(calls, NoCalls) ELSE calls
        /\ history' = Append(history, reaction # NoEvent)
        /\ imageOut' = NotCalled
        /\ UNCHANGED <<cache, cacheMutex, emojiIn, twemojiOut, imageIn>>

Update(reaction) ==
    LET spawns == reaction # NoEvent /\ Len(objects) < maxObjects
        spawned == IF spawns THEN Append(objects, NewReactionObject(reaction))
                   ELSE objects
    IN  /\ Len(history) < MaxUpdates
        /\ objects' = [i \in 1..Len(spawned) |-> UpdateObject(spawned[i])]
        /\ task' = IF spawns THEN Append(task, NewTask(reaction)) ELSE task
        /\ calls' = IF spawns THEN Append(calls, NoCalls) ELSE calls
        /\ history' = Append(history, reaction # NoEvent)
        /\ imageOut' = NotCalled
        /\ UNCHANGED <<cache, cacheMutex, emojiIn, twemojiOut, imageIn>>

\* what Draw puts on the screen for the object o: a frame of its animation,
\* its image, its fallback text, or nothing
Drawn(o) ==
    IF o.animatedImage # Nil /\ Len(AnimationOf(o.animatedImage).Frames) > 0
    THEN [draws |-> "image", asset |-> o.animatedImage, frame |-> o.currentFrame]
    ELSE IF o.image # Nil
    THEN [draws |-> "image", asset |-> o.image, frame |-> 0]
    ELSE IF o.fallbackText # <<>>
    THEN [draws |-> "text", asset |-> Nil, frame |-> 0]
    ELSE [draws |-> "nothing", asset |-> Nil, frame |-> 0]

\* Game.Draw, called once after a call of Update: imageOut is the screen,
\* which the next call of Update finds cleared
DrawGame ==
    /\ Len(history) > 0
    /\ imageOut = NotCalled
    /\ imageOut' = [called |-> TRUE,
                    screen |-> [i \in 1..Len(objects) |-> Drawn(objects[i])]]
    /\ UNCHANGED <<objects, task, cache, cacheMutex, calls, emojiIn, twemojiOut,
                   history, imageIn>>

\* a step of the load task t
LoadStepOf(t) ==
    \/ GetRLock(t)
    \/ GetRUnlock(t)
    \/ CacheHit(t)
    \/ DetermineURL(t)
    \/ FetchAndDecode(t)
    \/ SetLock(t)
    \/ SetUnlock(t)
    \/ AssignDecoded(t)

NextGame ==
    \/ \E reaction \in GameEvents \cup {NoEvent} :
          /\ reaction # NoEvent => Len(objects) < MaxEvents
          /\ Update(reaction)
    \/ DrawGame
    \/ \E t \in Tasks : GetRLock(t)
    \/ \E t \in Tasks : GetRUnlock(t)
    \/ \E t \in Tasks : CacheHit(t)
    \/ \E t \in Tasks : DetermineURL(t)
    \/ \E t \in Tasks : FetchAndDecode(t)
    \/ \E t \in Tasks : SetLock(t)
    \/ \E t \in Tasks : SetUnlock(t)
    \/ \E t \in Tasks : AssignDecoded(t)

SpecGame == Init /\ [][NextGame]_vars

------------------------------------------------------------------------------
(* The render loop at the cap of maxObjects display objects *)

\* the event every object on the screen came from
ShownEvent == [Name |-> CustomA, URL |-> "https://u2/a.gif"]

\* the object of a load of ShownEvent whose fetch failed
FallenBack ==
    [NewReactionObject(ShownEvent) EXCEPT
        !.fallbackText = Trim(ShownEvent.Name, {Colon})]

\* the finished load task of such an object
FailedLoad ==
    [NewTask(ShownEvent) EXCEPT !.pc = "Done", !.urlToFetch = ShownEvent.URL,
                                !.decoded = DecodeFailed]

\* the calls of the i-th such load, the loads having run one after another
FailedLoadCalls(i) ==
    [NoCalls EXCEPT
        !.Get = <<[key |-> ShownEvent.Name, found |-> FALSE,
                   afterFallback |-> i > 1]>>,
        !.fetchAndDecodeImage = <<ShownEvent.URL>>]

\* maxObjects - 2 events were taken and every load has failed in its fetch:
\* nothing is cached, no lock is held; history keeps the calls of Update
\* from here on
InitCap ==
    /\ objects = [i \in 1..(maxObjects - 2) |-> FallenBack]
    /\ task = [i \in 1..(maxObjects - 2) |-> FailedLoad]
    /\ calls = [i \in 1..(maxObjects - 2) |-> FailedLoadCalls(i)]
    /\ cache = [k \in {} |-> Nil]
    /\ cacheMutex = [readers |-> {}, writer |-> 0]
    /\ emojiIn = <<>>
    /\ twemojiOut = ""
    /\ InitStandalone

NextCap ==
    \/ \E reaction \in GameEvents \cup {NoEvent} : Update(reaction)
    \/ DrawGame
    \/ \E t \in Tasks : GetRLock(t)
    \/ \E t \in Tasks : GetRUnlock(t)
    \/ \E t \in Tasks : CacheHit(t)
    \/ \E t \in Tasks : DetermineURL(t)
    \/ \E t \in Tasks : FetchAndDecode(t)
    \/ \E t \in Tasks : SetLock(t)
    \/ \E t \in Tasks : SetUnlock(t)
    \/ \E t \in Tasks : AssignDecoded(t)

SpecCap == InitCap /\ [][NextCap]_vars

(* The load tasks with what the resolver and the asset source answered *)

\* history[t] with the field f set to v
Recorded(t, f, v) ==
    LET old == IF t \in DOMAIN history THEN history[t]
               ELSE [api |-> NotCalled, resp |-> NotCalled]
    IN  [u \in DOMAIN history \cup {t} |->
            IF u = t THEN [old EXCEPT ![f] = v] ELSE history[u]]

\* DetermineURL of load t; history keeps, load by load, the answer of the
\* API when the resolver is called
DetermineURLRecorded(t) ==
    /\ task[t].pc = "Checked"
    /\ ~task[t].exists
    /\ IF task[t].reaction.URL = "" /\ IsCustomName(task[t].reaction.Name)
       THEN \E api \in ApiResponses :
               /\ QueryCustomEmojiWith(t, api)
               /\ history' = Recorded(t, "api", api)
       ELSE /\ ResolveURL(t)
            /\ UNCHANGED history
    /\ UNCHANGED <<cacheMutex, emojiIn, twemojiOut, imageIn, imageOut>>

\* fetchAndDecodeImage of load t; history keeps, load by load, the response
FetchAndDecodeRecorded(t) ==
    /\ task[t].pc = "Fetch"
    /\ \E resp \in HttpResponses(task[t].urlToFetch) :
          /\ FetchAndDecodeWith(t, resp)
          /\ history' = Recorded(t, "resp", resp)
    /\ UNCHANGED <<imageIn, imageOut>>

NextRecorded ==
    \/ \E reaction \in RepeatedEvents :
          Len(objects) < MaxEvents /\ spawnReaction(reaction)
    \/ \E t \in Tasks : GetRLock(t)
    \/ \E t \in Tasks : GetRUnlock(t)
    \/ \E t \in Tasks : CacheHit(t)
    \/ \E t \in Tasks : DetermineURLRecorded(t)
    \/ \E t \in Tasks : FetchAndDecodeRecorded(t)
    \/ \E t \in Tasks : SetLock(t)
    \/ \E t \in Tasks : SetUnlock(t)
    \/ \E t \in Tasks : AssignDecoded(t)

SpecRecorded == Init /\ [][NextRecorded]_vars

------------------------------------------------------------------------------
(* One load of a custom emoji against every answer of the API *)

\* the statuses the API answers with
ResolverStatuses == {200, 201, 204, 301, 404, 500}

\* what QueryEmojiAPI meets: whether the config is loaded, whether http.Post
\* fails, the status, whether the body is JSON, and its url field ("" also
\* when the field is missing)
ResolverAnswers ==
    [configLoaded : BOOLEAN, transportErr : BOOLEAN, status : ResolverStatuses,
     jsonOk : BOOLEAN, url : {"", "https://r/a.webp"}]

\* imageIn is the answer the API will give
InitResolver ==
    /\ InitGame
    /\ emojiIn = <<>>
    /\ twemojiOut = ""
    /\ history = <<>>
    /\ imageIn \in ResolverAnswers
    /\ imageOut = NotCalled

\* the event ":a:" without URL is taken
SpawnCustom ==
    /\ objects = <<>>
    /\ spawnReaction([Name |-> CustomA, URL |-> ""])

\* DetermineURL of the load t, the API answering imageIn; imageOut keeps
\* what QueryEmojiAPI returned
DetermineURLAgainst(t) ==
    /\ task[t].pc = "Checked"
    /\ ~task[t].exists
    /\ task[t].reaction.URL = ""
    /\ IsCustomName(task[t].reaction.Name)
    /\ QueryCustomEmojiWith(t, imageIn)
    /\ imageOut' = [called |-> TRUE,
                    result |-> QueryEmojiAPI(Trim(task[t].reaction.Name, {Colon}),
                                             imageIn)]
    /\ UNCHANGED <<cacheMutex, emojiIn, twemojiOut, history, imageIn>>

NextResolver ==
    \/ SpawnCustom
    \/ \E t \in Tasks : GetRLock(t)
    \/ \E t \in Tasks : GetRUnlock(t)
    \/ \E t \in Tasks : DetermineURLAgainst(t)
    \/ \E t \in Tasks : FetchAndDecode(t)
    \/ \E t \in Tasks : SetLock(t)
    \/ \E t \in Tasks : SetUnlock(t)
    \/ \E t \in Tasks : AssignDecoded(t)

SpecResolver == InitResolver /\ [][NextResolver]_vars

------------------------------------------------------------------------------
(* The load tasks with the fetch in two steps: the request and its answer *)

\* http.Get(url) is called: the request is on its way and the goroutine
\* blocks in the call (the default client sets no timeout)
SendRequest(t) ==
    /\ task[t].pc = "Fetch"
    /\ task' = [task EXCEPT ![t].pc = "Waiting"]
    /\ UNCHANGED <<objects, cache, cacheMutex, calls, emojiIn, twemojiOut, standalone>>

\* the asset source answers, or the transport reports an error: http.Get
\* returns and fetchAndDecodeImage runs to its end
ReceiveResponse(t) ==
    /\ task[t].pc = "Waiting"
    /\ \E resp \in HttpResponses(task[t].urlToFetch) :
          FetchAndDecodeWith(t, resp)
    /\ UNCHANGED standalone

\* the steps the goroutine of load t takes by itself; the resolver is taken
\* to answer at once
ProgramStep(t) ==
    /\ t \in Tasks
    /\ \/ GetRLock(t)
       \/ GetRUnlock(t)
       \/ CacheHit(t)
       \/ DetermineURL(t)
       \/ SendRequest(t)
       \/ SetLock(t)
       \/ SetUnlock(t)
       \/ AssignDecoded(t)

NextWait ==
    \/ \E reaction \in RepeatedEvents :
          Len(objects) < MaxEvents /\ spawnReaction(reaction)
    \/ \E t \in Tasks : GetRLock(t)
    \/ \E t \in Tasks : GetRUnlock(t)
    \/ \E t \in Tasks : CacheHit(t)
    \/ \E t \in Tasks : DetermineURL(t)
    \/ \E t \in Tasks : SendRequest(t)
    \/ \E t \in Tasks : ReceiveResponse(t)
    \/ \E t \in Tasks : SetLock(t)
    \/ \E t \in Tasks : SetUnlock(t)
    \/ \E t \in Tasks : AssignDecoded(t)

\* the goroutines run on; when the asset source answers is up to the source
SpecWait ==
    Init /\ [][NextWait]_vars /\ \A t \in 1..MaxEvents : WF_vars(ProgramStep(t))

-----------------------------------------------------------------------------
(* MisskeyClient.Connect: the event feed. imageIn is the streaming server,
   imageOut the process and its calls of Connect, history the events waiting
   in reactionChan *)

\* the reaction notifications the server sends: ":a:" with its URL among the
\* note's reactionEmojis, and a standard symbol
FeedEvents ==
    {[Name |-> CustomA, URL |-> "https://u2/a.gif"], [Name |-> ThumbsUp, URL |-> ""]}

\* main has started the first call of Connect with "go"
InitFeed ==
    /\ InitGame
    /\ emojiIn = <<>>
    /\ twemojiOut = ""
    /\ history = <<>>
    /\ imageIn \in [up : BOOLEAN]
    /\ imageOut = [called |-> TRUE, running |-> TRUE, connect |-> <<"Dial">>]

\* the calls of Connect made so far
Connects == DOMAIN imageOut.connect

\* log.Fatalf: the process exits
Fatalf == imageOut' = [imageOut EXCEPT !.running = FALSE]

\* the call g of Connect goes on at pc
ConnectAt(g, pc) == imageOut' = [imageOut EXCEPT !.connect[g] = pc]

\* websocket.DefaultDialer.Dial, and log.Fatalf when it fails
FeedDial(g) ==
    /\ imageOut.running
    /\ imageOut.connect[g] = "Dial"
    /\ IF imageIn.up THEN ConnectAt(g, "Subscribe") ELSE Fatalf
    /\ UNCHANGED <<objects, task, cache, cacheMutex, calls, emojiIn, twemojiOut,
                   history, imageIn>>

\* c.WriteJSON(connectMsg), and log.Fatalf when it fails
FeedSubscribe(g) ==
    /\ imageOut.running
    /\ imageOut.connect[g] = "Subscribe"
    /\ IF imageIn.up THEN ConnectAt(g, "Read") ELSE Fatalf
    /\ UNCHANGED <<objects, task, cache, cacheMutex, calls, emojiIn, twemojiOut,
                   history, imageIn>>

\* c.ReadJSON returns a reaction notification: reactionChan <- reaction
FeedDeliver(g, reaction) ==
    /\ imageOut.running
    /\ imageOut.connect[g] = "Read"
    /\ imageIn.up
    /\ Len(history) < MaxQueued
    /\ history' = Append(history, reaction)
    /\ UNCHANGED <<objects, task, cache, cacheMutex, calls, emojiIn, twemojiOut,
                   imageIn, imageOut>>

\* c.ReadJSON returns an error: log, then time.Sleep
FeedReadError(g) ==
    /\ imageOut.running
    /\ imageOut.connect[g] = "Read"
    /\ ~imageIn.up
    /\ ConnectAt(g, "Sleep")
    /\ UNCHANGED <<objects, task, cache, cacheMutex, calls, emojiIn, twemojiOut,
                   history, imageIn>>

\* after the sleep: go mc.Connect(reactionChan); return (and c.Close())
FeedReconnect(g) ==
    /\ imageOut.running
    /\ imageOut.connect[g] = "Sleep"
    /\ Len(imageOut.connect) < MaxConnects
    /\ imageOut' = [imageOut EXCEPT
                       !.connect = Append([@ EXCEPT ![g] = "Returned"], "Dial")]
    /\ UNCHANGED <<objects, task, cache, cacheMutex, calls, emojiIn, twemojiOut,
                   history, imageIn>>

\* the streaming server goes down, or comes back
ServerChanges ==
    /\ imageOut.running
    /\ imageIn' = [up |-> ~imageIn.up]
    /\ UNCHANGED <<objects, task, cache, cacheMutex, calls, emojiIn, twemojiOut,
                   history, imageOut>>

\* the receive of Game.Update's select: the oldest event leaves reactionChan
\* (what Update does with it is in SpecGame)
ReceiveReaction ==
    /\ imageOut.running
    /\ history # <<>>
    /\ history' = Tail(history)
    /\ UNCHANGED <<objects, task, cache, cacheMutex, calls, emojiIn, twemojiOut,
                   imageIn, imageOut>>

NextFeed ==
    \/ \E g \in Connects : FeedDial(g)
    \/ \E g \in Connects : FeedSubscribe(g)
    \/ \E g \in Connects : \E reaction \in FeedEvents : FeedDeliver(g, reaction)
    \/ \E g \in Connects : FeedReadError(g)
    \/ \E g \in Connects : FeedReconnect(g)
    \/ ServerChanges
    \/ ReceiveReaction

SpecFeed == InitFeed /\ [][NextFeed]_vars

-----------------------------------------------------------------------------
(* Game.Update moving the objects: positions and velocities are counted in
   half pixels, scales in halves *)

\* objectHalfSize * scale, in half pixels
Padding(o) == objectHalfSize * o.scale

\* isOutside for the window of w by h pixels
IsOutside(o, w, h) ==
    \/ o.x + Padding(o) < 0
    \/ o.x - Padding(o) > 2 * w
    \/ o.y + Padding(o) < 0
    \/ o.y - Padding(o) > 2 * h

\* the velocity of o turned at the edges of the window
Turned(o, w, h) ==
    [o EXCEPT
        !.vx = IF \/ o.vx < 0 /\ o.x - Padding(o) < 0
                  \/ o.vx > 0 /\ o.x + Padding(o) > 2 * w
               THEN 0 - o.vx ELSE o.vx,
        !.vy = IF \/ o.vy < 0 /\ o.y - Padding(o) < 0
                  \/ o.vy > 0 /\ o.y + Padding(o) > 2 * h
               THEN 0 - o.vy ELSE o.vy]

\* the bounce that does not look at the lifetime
BounceAlways(o, w, h) == Turned(o, w, h)

\* if o.lifetime >= 0 { ... o.vx *= -1 ... o.vy *= -1 ... }
Bounce(o, w, h) == IF o.lifetime >= 0 THEN Turned(o, w, h) ELSE o

\* o.x += o.vx; o.y += o.vy; o.lifetime--
Moved(o) ==
    [o EXCEPT !.x = o.x + o.vx, !.y = o.y + o.vy, !.lifetime = o.lifetime - 1]

\* if o.lifetime < 0 && isOutside { continue }
Leaves(o, w, h) == o.lifetime < 0 /\ IsOutside(o, w, h)

\* rand.Float64() * n for the draws 0 and 1/2, in half pixels
AlongEdge(n) == {0, n}

\* the points spawnReaction puts an object of the padding given at: above,
\* right of, below and left of the window
SpawnPoints(w, h, padding) ==
    {[x |-> a, y |-> 0 - padding] : a \in AlongEdge(w)}
        \cup {[x |-> 2 * w + padding, y |-> b] : b \in AlongEdge(h)}
        \cup {[x |-> a, y |-> 2 * h + padding] : a \in AlongEdge(w)}
        \cup {[x |-> 0 - padding, y |-> b] : b \in AlongEdge(h)}

\* the velocities of a speed from minObjectSpeed up to, not including,
\* maxObjectSpeed whose angle is within a quarter of pi of the angle from
\* the point p to the centre of the window
Velocities(p, w, h) ==
    LET dx == 2 * (w \div 2) - p.x
        dy == 2 * (h \div 2) - p.y
    IN  {v \in [vx : (0 - MaxSpeedDraw)..MaxSpeedDraw,
                vy : (0 - MaxSpeedDraw)..MaxSpeedDraw] :
            LET along == v.vx * dx + v.vy * dy
                across == v.vx * dy - v.vy * dx
            IN  /\ v.vx * v.vx + v.vy * v.vy >= minObjectSpeed * minObjectSpeed
                /\ v.vx * v.vx + v.vy * v.vy < maxObjectSpeed * maxObjectSpeed
                /\ along > 0
                /\ across <= along
                /\ 0 - across <= along}

\* &ReactionObject{x, y, vx, vy, lifetime, scale}; loaded tells whether
\* the load task of the object has completed
MovingObject(p, v, lifetime, scale) ==
    [x |-> p.x, y |-> p.y, vx |-> v.vx, vy |-> v.vy, lifetime |-> lifetime,
     scale |-> scale, loaded |-> FALSE]

\* the window, no object yet
InitMoving ==
    /\ InitGame
    /\ emojiIn = <<>>
    /\ twemojiOut = ""
    /\ history = <<>>
    /\ imageIn = [w |-> WindowWidth, h |-> WindowHeight]
    /\ imageOut = NotCalled

\* spawnReaction for the one event of the run
SpawnMoving ==
    /\ ~imageOut.called
    /\ \E scale \in {1, 2} :
         \E p \in SpawnPoints(imageIn.w, imageIn.h, objectHalfSize * scale) :
           \E v \in Velocities(p, imageIn.w, imageIn.h) :
             \E draw \in 0..MaxLifetimeDraw :
               /\ draw < maxLifetime - minLifetime
               /\ objects' = Append(objects,
                                    MovingObject(p, v, minLifetime + draw, scale))
    /\ imageOut' = [called |-> TRUE]
    /\ UNCHANGED <<task, cache, cacheMutex, calls, emojiIn, twemojiOut, history,
                   imageIn>>

\* the load task of object i completes
LoadCompletes(i) ==
    /\ i \in 1..Len(objects)
    /\ ~objects[i].loaded
    /\ objects' = [objects EXCEPT ![i].loaded = TRUE]
    /\ UNCHANGED <<task, cache, cacheMutex, calls, emojiIn, twemojiOut, history,
                   imageIn, imageOut>>

\* the loop of Update over g.objects, no event waiting; history keeps the
\* objects that left, as they were when they left
UpdateMoving ==
    /\ objects # <<>>
    /\ LET moved == [i \in 1..Len(objects) |-> Moved(objects[i])]
           stays(o) == ~Leaves(o, imageIn.w, imageIn.h)
           left(o) == Leaves(o, imageIn.w, imageIn.h)
           nextObjects == SelectSeq(moved, stays)
       IN  /\ objects' = [i \in 1..Len(nextObjects) |->
                             Bounce(nextObjects[i], imageIn.w, imageIn.h)]
           /\ history' = history \o SelectSeq(moved, left)
    /\ UNCHANGED <<task, cache, cacheMutex, calls, emojiIn, twemojiOut, imageIn,
                   imageOut>>

NextMoving == SpawnMoving \/ UpdateMoving \/ (\E i \in 1..Len(objects) : LoadCompletes(i))

\* ebiten calls Update tick after tick
SpecMoving == InitMoving /\ [][NextMoving]_vars /\ WF_vars(UpdateMoving)

-----------------------------------------------------------------------------
(* Vocabulary of the properties *)

\* the load of task t ended in the text fallback
Failed(t) == task[t].queryErr \/ task[t].decoded.err

\* the load of task t has returned
Returned(t) == task[t].pc = "Done"

\* the asset display object t shows (Nil when it shows none)
ObjectAsset(t) ==
    IF objects[t].animatedImage # Nil
    THEN objects[t].animatedImage
    ELSE objects[t].image

\* two assets hold the same image: same variant, decoded from the same URL
SameContent(a, b) == a.type = b.type /\ a.url = b.url

\* a complete decoded asset
IsAsset(a) == a.type \in {"Static", "Animated"} /\ a.url # ""

\* name without its leading and trailing ':' runes, read off the positions
\* of the runes that are not ':'
StripDelimiters(name) ==
    LET keep == {i \in 1..Len(name) : name[i] # 58}
        first == CHOOSE i \in keep : \A j \in keep : i <= j
        last == CHOOSE i \in keep : \A j \in keep : j <= i
    IN  IF keep = {} THEN <<>> ELSE SubSeq(name, first, last)

\* a custom identifier as the policy words it, on the runes of the name
IsDelimited(name) ==
    Len(name) > 2 /\ name[1] = 58 /\ name[Len(name)] = 58

\* task t completes Get in this step
GetReturns(t) == task[t].pc = "GetLocked" /\ task'[t].pc = "Checked"

\* some task has stored an entry under name
SetCalledFor(name) ==
    \E u \in Tasks : \E i \in DOMAIN calls[u].Set : calls[u].Set[i].key = name

-----------------------------------------------------------------------------
(* C1: a load that finds its Name in the cache calls neither QueryEmojiAPI
   nor fetchAndDecodeImage, whatever the event's URL is: it assigns the
   cached item (an asset some load stored under that Name) to its object,
   to image or animatedImage by its type, and returns. *)
C1_CacheHitNoNetwork ==
    \A t \in Tasks :
        task[t].exists =>
            LET item == task[t].cachedItem
            IN  /\ calls[t].QueryEmojiAPI = <<>>
                /\ calls[t].fetchAndDecodeImage = <<>>
                /\ calls[t].Set = <<>>
                /\ task[t].pc \in {"Checked", "Done"}
                /\ IsAsset(item)
                /\ \E u \in Tasks : \E i \in DOMAIN calls[u].Set :
                      calls[u].Set[i] =
                          [key |-> task[t].reaction.Name, value |-> item]
                /\ Returned(t) =>
                      /\ objects[t].fallbackText = <<>>
                      /\ IF item.type = "Animated"
                         THEN /\ objects[t].animatedImage = item
                              /\ objects[t].image = Nil
                         ELSE /\ objects[t].image = item
                              /\ objects[t].animatedImage = Nil

\* a returned cache hit for an event whose URL is not the cached asset's
C1_Witness ==
    \E t \in Tasks :
        /\ task[t].exists
        /\ Returned(t)
        /\ task[t].reaction.URL # ""
        /\ ObjectAsset(t) = task[t].cachedItem
        /\ ObjectAsset(t).url # task[t].reaction.URL

(* C2: a load that ends in a resolver, fetch or decode error has made no
   Set call and its failing step leaves the cache as it is; the cache
   changes only in the Set of a task whose fetchAndDecodeImage succeeded,
   and then by exactly that task's decoded asset under its Name. *)
C2_NothingCachedOnFailure ==
    [][/\ cache' # cache =>
            \E t \in Tasks :
                LET value == DecodedValue(task[t].decoded)
                    key == task[t].reaction.Name
                IN  /\ task[t].pc = "SetLocked"
                    /\ ~Failed(t)
                    /\ calls[t].fetchAndDecodeImage = <<task[t].urlToFetch>>
                    /\ IsAsset(value)
                    /\ value.ptr = t
                    /\ value.url = task[t].urlToFetch
                    /\ DOMAIN cache' = DOMAIN cache \cup {key}
                    /\ cache'[key] = value
                    /\ \A k \in DOMAIN cache : k # key => cache'[k] = cache[k]
       /\ \A t \in Tasks :
            (task'[t].queryErr \/ task'[t].decoded.err) =>
                /\ calls'[t].Set = <<>>
                /\ ~Returned(t) => cache' = cache
                /\ task'[t].pc = "Done"
      ]_vars

\* a fetch that failed beside a load that cached its asset: the cache holds
\* that asset alone
C2_Witness ==
    \E t, u \in Tasks :
        /\ Returned(t) /\ task[t].decoded.err
        /\ Returned(u) /\ ~Failed(u) /\ ~task[u].exists
        /\ DOMAIN cache = {task[u].reaction.Name}
        /\ task[t].reaction.Name # task[u].reaction.Name

(* C3: failures are not remembered. A Get for name N made after a load of
   N ended in the text fallback, no load having stored N, finds nothing;
   and every load that found nothing resolves and fetches: it has called
   the resolver or taken a URL, and unless the resolver failed it has
   called fetchAndDecodeImage on that URL. *)
C3_FailuresNotRemembered ==
    [][\A t \in Tasks :
          /\ ( /\ GetReturns(t)
               /\ \E u \in Tasks :
                     /\ task[u].reaction.Name = task[t].reaction.Name
                     /\ Returned(u) /\ Failed(u)
               /\ ~SetCalledFor(task[t].reaction.Name) )
             => (~task'[t].exists /\ task'[t].cachedItem = Nil)
          /\ ( /\ task'[t].pc \in {"Set", "SetLocked", "Assign", "Done"}
               /\ ~task'[t].exists )
             => \/ /\ task'[t].queryErr
                   /\ Len(calls'[t].QueryEmojiAPI) = 1
                \/ /\ ~task'[t].queryErr
                   /\ task'[t].urlToFetch # ""
                   /\ \/ task'[t].reaction.URL # ""
                      \/ Len(calls'[t].QueryEmojiAPI) = 1
                      \/ Len(calls'[t].emojiToTwemojiURL) = 1
                   /\ calls'[t].fetchAndDecodeImage = <<task'[t].urlToFetch>>
      ]_vars

\* a load of N that began after a load of N had failed, and that ended with
\* its asset in the cache
C3_Witness ==
    \E t, u \in Tasks :
        /\ task[u].reaction.Name = task[t].reaction.Name
        /\ Returned(u) /\ Failed(u)
        /\ Returned(t) /\ ~Failed(t)
        /\ calls[t].Get = <<[key |-> task[t].reaction.Name, found |-> FALSE,
                             afterFallback |-> TRUE]>>
        /\ task[t].reaction.Name \in DOMAIN cache
        /\ cache[task[t].reaction.Name] = ObjectAsset(t)
        /\ IsAsset(ObjectAsset(t))

-----------------------------------------------------------------------------
\* the Twemoji URLs of the names that are not custom identifiers
ExpectedTwemojiURL(name) ==
    CASE name = <<128077>> ->
            "https://cdn.jsdelivr.net/gh/twitter/twemoji@latest/assets/72x72/1f44d.png"
      [] name = <<58, 58>> ->
            "https://cdn.jsdelivr.net/gh/twitter/twemoji@latest/assets/72x72/3a-3a.png"
      [] name = <<58, 97>> ->
            "https://cdn.jsdelivr.net/gh/twitter/twemoji@latest/assets/72x72/3a-61.png"
      [] OTHER -> "no Twemoji URL expected"

\* task t has determined its URL or given up on it after a cache miss
PastResolution(t) ==
    /\ ~task[t].exists
    /\ task[t].pc \in {"Fetch", "Set", "SetLocked", "Assign", "Done"}

(* C4: on a cache miss exactly one of three branches is taken: a non-empty
   event URL is the URL fetched, with no resolver call and no Twemoji
   derivation; else a Name longer than 2 that starts and ends with ':' is
   resolved by one resolver call on the stripped name, whose URL is the URL
   fetched; else (also for "::" and ":a") the Twemoji URL of Name is the URL
   fetched. No other URL is ever fetched. *)
C4_ResolutionPolicy ==
    \A t \in Tasks :
        LET reaction == task[t].reaction
            fetched == calls[t].fetchAndDecodeImage
        IN  /\ Len(fetched) <= 1
            /\ fetched # <<>> => fetched = <<task[t].urlToFetch>>
            /\ ~PastResolution(t) =>
                  /\ calls[t].QueryEmojiAPI = <<>>
                  /\ calls[t].emojiToTwemojiURL = <<>>
                  /\ fetched = <<>>
            /\ PastResolution(t) =>
                  IF reaction.URL # ""
                  THEN /\ task[t].urlToFetch = reaction.URL
                       /\ calls[t].QueryEmojiAPI = <<>>
                       /\ calls[t].emojiToTwemojiURL = <<>>
                  ELSE IF IsDelimited(reaction.Name)
                  THEN /\ calls[t].QueryEmojiAPI = <<StripDelimiters(reaction.Name)>>
                       /\ calls[t].emojiToTwemojiURL = <<>>
                       /\ IF task[t].queryErr
                          THEN fetched = <<>> /\ task[t].urlToFetch = ""
                          ELSE task[t].urlToFetch = "https://r/a.webp"
                  ELSE /\ calls[t].emojiToTwemojiURL = <<reaction.Name>>
                       /\ calls[t].QueryEmojiAPI = <<>>
                       /\ task[t].urlToFetch = ExpectedTwemojiURL(reaction.Name)
                       /\ ~task[t].queryErr

\* ":a:" without URL fetched from the resolver's URL, "::" from its Twemoji URL
C4_Witness ==
    \E t, u \in Tasks :
        /\ task[t].reaction = [Name |-> <<58, 97, 58>>, URL |-> ""]
        /\ calls[t].QueryEmojiAPI = <<<<97>>>>
        /\ calls[t].fetchAndDecodeImage = <<"https://r/a.webp">>
        /\ task[u].reaction = [Name |-> <<58, 58>>, URL |-> ""]
        /\ calls[u].QueryEmojiAPI = <<>>
        /\ calls[u].fetchAndDecodeImage = <<ExpectedTwemojiURL(<<58, 58>>)>>

\* ":a:" with a URL fetched from that URL, ":a" from its Twemoji URL
C4_WitnessEventURL ==
    \E t, u \in Tasks :
        /\ task[t].reaction = [Name |-> <<58, 97, 58>>, URL |-> "https://u1/a.png"]
        /\ calls[t].QueryEmojiAPI = <<>>
        /\ calls[t].fetchAndDecodeImage = <<"https://u1/a.png">>
        /\ task[u].reaction = [Name |-> <<58, 97>>, URL |-> ""]
        /\ calls[u].fetchAndDecodeImage = <<ExpectedTwemojiURL(<<58, 97>>)>>

(* C5: when an event without URL names a custom identifier and the resolver
   returns an error, the load returns at once: the object's fallbackText is
   the name without its delimiters, fetchAndDecodeImage and Set are never
   called by that task, and image and animatedImage stay nil. *)
C5_ResolverFailureFallback ==
    \A t \in Tasks :
        task[t].queryErr =>
            /\ task[t].reaction.URL = ""
            /\ IsDelimited(task[t].reaction.Name)
            /\ Returned(t)
            /\ objects[t].fallbackText = StripDelimiters(task[t].reaction.Name)
            /\ calls[t].fetchAndDecodeImage = <<>>
            /\ calls[t].Set = <<>>
            /\ objects[t].image = Nil
            /\ objects[t].animatedImage = Nil

\* ":a:" without URL, the resolver failed: the object shows "a"
C5_Witness ==
    \E t \in Tasks :
        /\ task[t].reaction = [Name |-> <<58, 97, 58>>, URL |-> ""]
        /\ task[t].queryErr
        /\ Returned(t)
        /\ objects[t].fallbackText = <<97>>

(* C6: a fetch or decode failure after the URL was determined, in any of the
   three branches, ends the load with fallbackText equal to the Name without
   its leading and trailing ':' (":a:" gives "a", a bare symbol itself) and
   with image and animatedImage nil. *)
C6_FetchFailureFallback ==
    \A t \in Tasks :
        task[t].decoded.err =>
            /\ Returned(t)
            /\ calls[t].fetchAndDecodeImage = <<task[t].urlToFetch>>
            /\ objects[t].fallbackText = StripDelimiters(task[t].reaction.Name)
            /\ objects[t].image = Nil
            /\ objects[t].animatedImage = Nil
            /\ calls[t].Set = <<>>

\* ":a:" with a URL that fails gives "a"; the bare symbol gives itself
C6_Witness ==
    \E t, u \in Tasks :
        /\ task[t].reaction = [Name |-> <<58, 97, 58>>, URL |-> "https://u1/a.png"]
        /\ task[t].decoded.err
        /\ objects[t].fallbackText = <<97>>
        /\ task[u].reaction = [Name |-> <<128077>>, URL |-> ""]
        /\ task[u].decoded.err
        /\ objects[u].fallbackText = <<128077>>

-----------------------------------------------------------------------------
\* the lowercase hexadecimal numerals of the runes of the symbols
ExpectedHex(r) ==
    CASE r = 128077 -> "1f44d"
      [] r = 10084 -> "2764"
      [] r = 65039 -> "fe0f"
      [] r = 71 -> "47"

RECURSIVE ExpectedKey(_, _, _)
\* the numerals of runes[i..] other than U+FE0F appended to acc, '-' between
ExpectedKey(runes, i, acc) ==
    IF i > Len(runes) THEN acc
    ELSE IF runes[i] = 65039 THEN ExpectedKey(runes, i + 1, acc)
    ELSE ExpectedKey(runes, i + 1,
                     IF acc = "" THEN ExpectedHex(runes[i])
                     ELSE acc \o "-" \o ExpectedHex(runes[i]))

(* C7: emojiToTwemojiURL returns the CDN template with its key the code
   points of the symbol in order, in lowercase hexadecimal, joined by '-',
   every U+FE0F left out: U+1F44D gives "1f44d", U+2764 U+FE0F "2764". *)
C7_TwemojiURL ==
    twemojiOut # "" =>
        /\ twemojiOut =
              "https://cdn.jsdelivr.net/gh/twitter/twemoji@latest/assets/72x72/"
                  \o ExpectedKey(emojiIn, 1, "") \o ".png"
        /\ emojiIn = <<128077>> =>
              twemojiOut =
                "https://cdn.jsdelivr.net/gh/twitter/twemoji@latest/assets/72x72/1f44d.png"
        /\ emojiIn = <<10084, 65039>> =>
              twemojiOut =
                "https://cdn.jsdelivr.net/gh/twitter/twemoji@latest/assets/72x72/2764.png"

\* U+1F44D U+FE0F U+2764 gives the key "1f44d-2764"
C7_Witness ==
    /\ emojiIn = <<128077, 65039, 10084>>
    /\ twemojiOut =
          "https://cdn.jsdelivr.net/gh/twitter/twemoji@latest/assets/72x72/1f44d-2764.png"

-----------------------------------------------------------------------------
(* C8: the cache is keyed by Name, so every object whose load for a name
   returned with an asset shows the same image as every other object loaded
   for that name, also when the events carry different URLs and the loads
   run at the same time. *)
C8_SameNameSameAsset ==
    \A t, u \in Tasks :
        ( /\ task[t].reaction.Name = task[u].reaction.Name
          /\ Returned(t) /\ IsAsset(ObjectAsset(t))
          /\ Returned(u) /\ IsAsset(ObjectAsset(u)) )
        => SameContent(ObjectAsset(t), ObjectAsset(u))

(* C9: once the cache holds an entry for a name, no later step changes the
   image stored under that name, the Set of a second load of the name that
   ends afterwards included. *)
C9_EntryNeverMutated ==
    [][\A k \in DOMAIN cache :
          /\ k \in DOMAIN cache'
          /\ SameContent(cache'[k], cache[k])]_vars

(* C10: entries are never evicted: no step removes a key from the cache, Get
   returns found exactly when the key is in the cache, and so once a Get for
   a name has returned found, every Get for that name that returns later
   returns found too. *)
C10_NeverEvicted ==
    [][/\ DOMAIN cache \subseteq DOMAIN cache'
       /\ \A t \in Tasks :
             GetReturns(t) =>
                /\ task'[t].exists <=> task[t].reaction.Name \in DOMAIN cache
                /\ task'[t].exists => task'[t].cachedItem = cache[task[t].reaction.Name]
                /\ (\E u \in Tasks :
                       /\ task[u].reaction.Name = task[t].reaction.Name
                       /\ task[u].exists)
                   => task'[t].exists
       /\ \A t \in Tasks :
             task'[t].exists => task'[t].reaction.Name \in DOMAIN cache'
      ]_vars

\* a load that stored the name and two other Gets that found it: one whose
\* load has returned, one that has just been answered
C10_Witness ==
    \E t, u, w \in Tasks :
        /\ task[t].reaction.Name = task[w].reaction.Name
        /\ task[u].reaction.Name = task[w].reaction.Name
        /\ calls[w].Set # <<>>
        /\ task[t].exists /\ Returned(t)
        /\ task[u].exists /\ task[u].pc = "Checked"
        /\ t # u

-----------------------------------------------------------------------------
\* the index of the last Set of key among the first n calls of h (0 when none)
LastSetBefore(h, key, n) ==
    LET sets == {j \in 1..n : h[j].op = "Set" /\ h[j].key = key}
    IN  IF sets = {} THEN 0 ELSE CHOOSE j \in sets : \A k \in sets : k <= j

(* C11: the Set/Get contract of the cache. Every Get(N) returns the value of
   the last Set(N, _) completed before it, found, and returns not found when
   no Set(N, _) came before (so Set then Get gives the value back, the last
   write wins, Sets of other keys do not count); and a Set step changes the
   entry of its key alone, leaving the map as it is when the key already
   holds the value (a second Set(N, v) is the same as one). *)
C11_SetGetContract ==
    [][/\ \A i \in DOMAIN history' :
            history'[i].op = "Get" =>
                LET j == LastSetBefore(history', history'[i].key, i - 1)
                IN  IF j = 0
                    THEN ~history'[i].found
                    ELSE /\ history'[i].found
                         /\ history'[i].value = history'[j].value
       /\ cache' # cache =>
             LET key == task[Caller].reaction.Name
                 value == DecodedValue(task[Caller].decoded)
             IN  /\ task[Caller].pc = "SetLocked"
                 /\ DOMAIN cache' = DOMAIN cache \cup {key}
                 /\ cache'[key] = value
                 /\ \A k \in DOMAIN cache : k # key => cache'[k] = cache[k]
       /\ (/\ task[Caller].pc = "SetLocked"
           /\ task[Caller].reaction.Name \in DOMAIN cache
           /\ cache[task[Caller].reaction.Name] =
                 DecodedValue(task[Caller].decoded))
             => cache' = cache
     ]_vars

\* Set(N, a), Set(M, a), Set(N, b) with b other than a, then Get(N) gives b
C11_Witness ==
    /\ Len(history) = 4
    /\ history[1].op = "Set" /\ history[2].op = "Set" /\ history[3].op = "Set"
    /\ history[4].op = "Get"
    /\ history[1].key = history[3].key /\ history[4].key = history[3].key
    /\ history[2].key # history[1].key
    /\ history[1].value # history[3].value
    /\ history[4].found /\ history[4].value = history[3].value

-----------------------------------------------------------------------------
(* C12: the locking discipline of the cache. The tasks holding the read lock
   are those inside Get's critical section, where several may be at once: a
   task about to read is let in whenever no Set holds the lock, whoever else
   is reading; the write lock is held by a task only while it is at the map
   insertion of Set and then no task reads and no other writes, so tasks that
   resolve, fetch or decode hold no lock; and every Get and every Set that
   was called returns. *)
C12_LockingDiscipline ==
    /\ [](\A t \in Tasks :
             /\ t \in cacheMutex.readers <=> task[t].pc = "GetLocked"
             /\ cacheMutex.writer = t <=> task[t].pc = "SetLocked"
             /\ (task[t].pc = "Get" /\ cacheMutex.writer = 0)
                   => ENABLED GetRLock(t))
    /\ [](/\ cacheMutex.writer # 0 => cacheMutex.readers = {}
          /\ cacheMutex.writer \in Tasks \cup {0}
          /\ cacheMutex.readers \subseteq Tasks)
    /\ \A t \in 1..MaxEvents :
          /\ (t \in Tasks /\ task[t].pc \in {"Get", "GetLocked"})
                ~> (t \in Tasks /\ task[t].pc = "Checked")
          /\ (t \in Tasks /\ task[t].pc \in {"Set", "SetLocked"})
                ~> (t \in Tasks /\ task[t].pc = "Assign")

\* two tasks inside Get's critical section at once
C12_Witness ==
    \E t, u \in Tasks :
        /\ t # u
        /\ {t, u} \subseteq cacheMutex.readers
        /\ task[t].pc = "GetLocked" /\ task[u].pc = "GetLocked"

-----------------------------------------------------------------------------
\* t and u load the same name, both missed the cache, and neither made its
\* Get after the other had given up: their loads overlapped
MissedTogether(t, u) ==
    /\ t # u
    /\ task[t].reaction.Name = task[u].reaction.Name
    /\ calls[t].Get # <<>> /\ calls[u].Get # <<>>
    /\ ~calls[t].Get[1].found /\ ~calls[u].Get[1].found
    /\ ~calls[t].Get[1].afterFallback /\ ~calls[u].Get[1].afterFallback

\* every load of name has returned
AllReturned(name) ==
    \A w \in Tasks : task[w].reaction.Name = name => Returned(w)

\* the loads of name that decoded an image themselves
Decoders(name) ==
    {w \in Tasks : /\ task[w].reaction.Name = name
                    /\ calls[w].Get # <<>> /\ ~task[w].exists
                    /\ task[w].pc \in {"Set", "SetLocked", "Assign", "Done"}
                    /\ ~Failed(w)}

\* display object t holds what its own load ended with: the asset it decoded,
\* or the name without delimiters as text and no image
HoldsOwnResult(t) ==
    IF Failed(t)
    THEN /\ ObjectAsset(t) = Nil
         /\ objects[t].fallbackText = StripDelimiters(task[t].reaction.Name)
    ELSE /\ IsAsset(ObjectAsset(t))
         /\ ObjectAsset(t) = DecodedValue(task[t].decoded)
         /\ ObjectAsset(t).ptr = t

(* C13 as stated, for loads that both went as far as fetchAndDecodeImage:
   when loads of the same name missed the cache together and all loads of
   the name have returned, the cache holds an entry for the name, a complete
   asset produced by one of them. *)
C13_OneEntryAfterMisses ==
    \A t, u \in Tasks :
        (/\ MissedTogether(t, u)
         /\ calls[t].fetchAndDecodeImage # <<>>
         /\ calls[u].fetchAndDecodeImage # <<>>
         /\ AllReturned(task[t].reaction.Name)) =>
            LET name == task[t].reaction.Name
            IN  /\ name \in DOMAIN cache
                /\ IsAsset(cache[name])
                /\ \E w \in Decoders(name) :
                      cache[name] = DecodedValue(task[w].decoded)

(* C13, amended: loads of the same name that missed the cache together are
   never stuck (while a load has not returned some load can take a step),
   each ends with its own asset or the text fallback on its own object, and
   once all loads of the name have returned the cache holds, when at least
   one of them decoded its image, one entry for the name, the complete asset
   of one of the decoders, and no entry for the name when none did. *)
C13_RedundantDecodes ==
    /\ (\E t \in Tasks : ~Returned(t)) => ENABLED LoadStep
    /\ \A t, u \in Tasks :
          MissedTogether(t, u) =>
             /\ Returned(t) => HoldsOwnResult(t)
             /\ AllReturned(task[t].reaction.Name) =>
                   LET name == task[t].reaction.Name
                   IN  IF Decoders(name) = {}
                       THEN name \notin DOMAIN cache
                       ELSE /\ name \in DOMAIN cache
                            /\ IsAsset(cache[name])
                            /\ \E w \in Decoders(name) :
                                  cache[name] = DecodedValue(task[w].decoded)

\* two loads of one name missed together, both decoded and returned with
\* their own assets, and the cache holds the asset of the first of them
C13_Witness ==
    \E t, u \in Tasks :
        /\ MissedTogether(t, u) /\ t < u
        /\ Returned(t) /\ Returned(u)
        /\ ~Failed(t) /\ ~Failed(u)
        /\ ObjectAsset(t).ptr = t /\ ObjectAsset(u).ptr = u
        /\ cache[task[t].reaction.Name] = ObjectAsset(t)

-----------------------------------------------------------------------------
\* sub-image j of g draws pixel x opaquely
GifOpaqueAt(g, j, x) ==
    /\ g.Image[j].Rect.Min <= x /\ x < g.Image[j].Rect.Max
    /\ g.Image[j].Pix[x] # 0

\* pixel x lies in the rectangle of sub-image k of g
GifInRect(g, k, x) == g.Image[k].Rect.Min <= x /\ x < g.Image[k].Rect.Max

\* what frame i of g shows at pixel x: the colour of the last sub-image up
\* to i that draws x and was not cleared since by a restore-to-background
\* sub-image before i, transparent when there is none
GifShows(g, i, x) ==
    LET alive == {j \in 1..i :
                     /\ GifOpaqueAt(g, j, x)
                     /\ \A k \in j..(i - 1) :
                           ~(g.Disposal[k] = DisposalBackground
                               /\ GifInRect(g, k, x))}
    IN  IF alive = {} THEN 0
        ELSE g.Image[CHOOSE j \in alive : \A k \in alive : k <= j].Pix[x]

(* C15: for a GIF of n >= 2 sub-images preRenderGifAnimation returns n
   frames in the order of the sub-images, each a raster of the whole
   canvas, and frame i shows at every pixel what sub-images 1..i have drawn
   there and disposal has not cleared, not sub-image i alone. *)
C15_GifOutputShape ==
    imageOut.called =>
        LET g == imageIn.gif
            Frames == imageOut.anim.Frames
        IN  /\ Len(g.Image) >= 2
            /\ Len(Frames) = Len(g.Image)
            /\ \A i \in 1..Len(Frames) :
                  /\ Frames[i].Rect = Rect(0, g.Config.Width)
                  /\ DOMAIN Frames[i].Pix = 0..(g.Config.Width - 1)
                  /\ \A x \in 0..(g.Config.Width - 1) :
                        Frames[i].Pix[x] = GifShows(g, i, x)

\* frame 2 shows sub-image 1 where sub-image 2, a smaller rectangle, does
\* not draw
C15_Witness ==
    /\ imageOut.called
    /\ imageIn.gif.Image[1].Rect = Rect(0, CanvasWidth)
    /\ imageIn.gif.Image[2].Rect = Rect(0, 1)
    /\ imageIn.gif.Disposal[1] = DisposalNone
    /\ imageOut.anim.Frames[2].Pix[0] = 2
    /\ imageOut.anim.Frames[2].Pix[CanvasWidth - 1] = 1

-----------------------------------------------------------------------------
\* frame i + 1 at pixel x when the canvas is carried over from frame i:
\* sub-image i + 1 where it draws, frame i elsewhere
GifCarriedOver(g, Frames, i, x) ==
    IF GifOpaqueAt(g, i + 1, x)
    THEN g.Image[i + 1].Pix[x]
    ELSE Frames[i].Pix[x]

(* C16: when sub-image i of a GIF has disposal restore-to-background, frame
   i still shows the pixels sub-image i draws, and in frame i + 1 every
   pixel of sub-image i's rectangle that sub-image i + 1 does not draw is
   transparent, while the pixels outside the rectangle are carried over from
   frame i; with any other disposal (none, restore-to-previous, unspecified)
   frame i + 1 is frame i with sub-image i + 1 drawn over it. *)
C16_GifRestoreBackground ==
    imageOut.called =>
        LET g == imageIn.gif
            Frames == imageOut.anim.Frames
        IN  \A i \in 1..(Len(g.Image) - 1) : \A x \in 0..(g.Config.Width - 1) :
                /\ GifOpaqueAt(g, i, x) => Frames[i].Pix[x] = g.Image[i].Pix[x]
                /\ Frames[i + 1].Pix[x] =
                      IF g.Disposal[i] = DisposalBackground /\ GifInRect(g, i, x)
                      THEN (IF GifOpaqueAt(g, i + 1, x)
                            THEN g.Image[i + 1].Pix[x]
                            ELSE 0)
                      ELSE GifCarriedOver(g, Frames, i, x)

\* sub-image 1 fills the canvas, sub-image 2 draws the first pixel and is
\* restored to background, sub-image 3 covers the canvas with its first
\* pixel transparent: frame 2 shows sub-image 2 over sub-image 1, frame 3 is
\* transparent at the first pixel
C16_Witness ==
    /\ imageOut.called
    /\ Len(imageIn.gif.Image) = 3
    /\ imageIn.gif.Disposal[1] = DisposalNone
    /\ imageIn.gif.Disposal[2] = DisposalBackground
    /\ imageIn.gif.Image[1].Rect = Rect(0, CanvasWidth)
    /\ imageIn.gif.Image[1].Pix[0] = 1
    /\ imageIn.gif.Image[2].Rect = Rect(0, 1)
    /\ imageIn.gif.Image[3].Rect = Rect(0, CanvasWidth)
    /\ imageIn.gif.Image[3].Pix[0] = 0
    /\ imageOut.anim.Frames[2].Pix[0] = 2
    /\ imageOut.anim.Frames[2].Pix[CanvasWidth - 1] = 1
    /\ imageOut.anim.Frames[3].Pix[0] = 0
    /\ imageOut.anim.Frames[3].Pix[CanvasWidth - 1] = 3

-----------------------------------------------------------------------------
\* pixel x lies in the rectangle frame is drawn at
ApngInRect(frame, x) ==
    frame.XOffset <= x /\ x < frame.XOffset + Dx(frame.Image.Rect)

\* the pixel of frame that falls on pixel x of the canvas
ApngPixel(frame, x) == frame.Image.Pix[x - frame.XOffset]

\* pixel x of the canvas once frame is composited on the raster under: the
\* frame's pixel where the frame overwrites or is opaque, under elsewhere
ApngComposite(under, frame, x) ==
    IF ApngInRect(frame, x) /\ (frame.BlendOp = 0 \/ ApngPixel(frame, x) # 0)
    THEN ApngPixel(frame, x)
    ELSE under.Pix[x]

\* the colours frame draws
ApngColours(frame) ==
    {frame.Image.Pix[x] : x \in DOMAIN frame.Image.Pix} \ {0}

(* C17: in preRenderApngAnimation, for every animation frame k with disposal
   restore-to-previous that has a successor, the canvas frame k + 1 is
   composited on equals over the whole canvas the canvas frame k was drawn
   on and shows nothing frame k drew, whatever the disposals of the frames
   before; every output frame is its frame composited on that canvas, and
   the first frame is composited on the empty canvas. *)
C17_ApngRestorePrevious ==
    imageOut.called =>
        LET real == RealFrames(imageIn.apng)
            before == imageOut.before
            Frames == imageOut.anim.Frames
            pixels == 0..(imageIn.width - 1)
        IN  /\ Len(before) = Len(real) /\ Len(Frames) = Len(real)
            /\ before[1] = NewRGBA(Rect(0, imageIn.width))
            /\ \A k \in 1..Len(real) : \A x \in pixels :
                  Frames[k].Pix[x] = ApngComposite(before[k], real[k], x)
            /\ \A k \in 1..(Len(real) - 1) :
                  real[k].DisposeOp = DISPOSE_OP_PREVIOUS =>
                     /\ before[k + 1] = before[k]
                     /\ \A x \in pixels :
                           before[k + 1].Pix[x] \notin ApngColours(real[k])

\* three frames, none the default image: frame 1 fills the canvas and stays,
\* frame 2 fills it and is restored to previous, frame 3 draws the first
\* pixel: output frame 3 shows frame 3 over frame 1
C17_Witness ==
    /\ imageOut.called
    /\ Len(RealFrames(imageIn.apng)) = 3 /\ Len(imageIn.apng.Frames) = 3
    /\ imageIn.apng.Frames[1].DisposeOp = DISPOSE_OP_NONE
    /\ imageIn.apng.Frames[2].DisposeOp = DISPOSE_OP_PREVIOUS
    /\ imageOut.anim.Frames[1].Pix = [x \in 0..(CanvasWidth - 1) |-> 1]
    /\ imageOut.anim.Frames[2].Pix = [x \in 0..(CanvasWidth - 1) |-> 2]
    /\ imageOut.before[3] = imageOut.anim.Frames[1]
    /\ imageOut.anim.Frames[3].Pix[0] = 3
    /\ imageOut.anim.Frames[3].Pix[CanvasWidth - 1] = 1

(* C18: in preRenderApngAnimation the disposal of a frame is applied after
   the frame's output is copied and before the next frame is composited:
   output frame k shows every pixel frame k draws, whatever its disposal;
   after restore-to-background the canvas for frame k + 1 is output frame k
   with exactly the rectangle of frame k (its offset and size) transparent;
   after disposal none it is output frame k. *)
C18_ApngDisposalOrder ==
    imageOut.called =>
        LET real == RealFrames(imageIn.apng)
            before == imageOut.before
            Frames == imageOut.anim.Frames
            pixels == 0..(imageIn.width - 1)
        IN  /\ \A k \in 1..Len(real) : \A x \in pixels :
                  (ApngInRect(real[k], x) /\ ApngPixel(real[k], x) # 0)
                     => Frames[k].Pix[x] = ApngPixel(real[k], x)
            /\ \A k \in 1..(Len(real) - 1) : \A x \in pixels :
                  /\ real[k].DisposeOp = DISPOSE_OP_BACKGROUND =>
                        before[k + 1].Pix[x] =
                           IF ApngInRect(real[k], x) THEN 0 ELSE Frames[k].Pix[x]
                  /\ real[k].DisposeOp = DISPOSE_OP_NONE =>
                        before[k + 1].Pix[x] = Frames[k].Pix[x]

\* frame 1 fills the canvas and stays, frame 2 draws the first pixel and is
\* restored to background: output frame 2 shows it, and frame 3 is
\* composited on a canvas transparent there and showing frame 1 beside it
C18_Witness ==
    /\ imageOut.called
    /\ Len(RealFrames(imageIn.apng)) = 3 /\ Len(imageIn.apng.Frames) = 3
    /\ imageIn.apng.Frames[1].DisposeOp = DISPOSE_OP_NONE
    /\ imageIn.apng.Frames[2].DisposeOp = DISPOSE_OP_BACKGROUND
    /\ imageIn.apng.Frames[2].XOffset = 0
    /\ Dx(imageIn.apng.Frames[2].Image.Rect) = 1
    /\ imageOut.anim.Frames[2].Pix[0] = 2
    /\ imageOut.anim.Frames[2].Pix[CanvasWidth - 1] = 1
    /\ imageOut.before[3].Pix[0] = 0
    /\ imageOut.before[3].Pix[CanvasWidth - 1] = 1

-----------------------------------------------------------------------------
(* C14 *)

\* the response brought a body that was read in full
BodyRead(resp) == ~resp.transportErr /\ resp.status = StatusOK /\ ~resp.readErr

\* the animated decoder of the family of the file accepts it
DecodesAnimated(data) ==
    /\ data.contentType \in {"gif", "png", "webp"}
    /\ data.animOk
    /\ data.contentType = "png" => data.configOk

\* the real frames of a source: the sub-images of a GIF, the frames of an
\* APNG that are not the default image, the frames of a WebP
SourceFrames(data) ==
    IF data.contentType = "png"
    THEN Len(SelectSeq(data.anim.Frames, LAMBDA f : ~f.IsDefault))
    ELSE Len(data.anim.Image)

\* the source is an animation of two real frames or more
SeveralFrames(resp) ==
    /\ BodyRead(resp)
    /\ DecodesAnimated(resp.body)
    /\ SourceFrames(resp.body) >= 2

\* C14: when fetchAndDecodeImage returns an error it returns no image; when
\* it succeeds exactly one of Static and Animated is set; Animated is set
\* only for a source of two real frames or more, and is set for every such
\* source; for every other source that decodes Static is set, and is a single
\* picture of the size of the canvas.
C14_StaticAnimatedDiscipline ==
    imageOut.called =>
        LET resp == imageIn.resp
            result == imageOut.result
        IN  /\ result.err => result.Static = Nil /\ result.Animated = Nil
            /\ ~result.err => (result.Static = Nil) # (result.Animated = Nil)
            /\ result.Animated # Nil => SeveralFrames(resp)
            /\ SeveralFrames(resp) => ~result.err /\ result.Animated # Nil
            /\ (~result.err /\ ~SeveralFrames(resp)) =>
                   /\ result.Static # Nil
                   /\ result.Static.Rect = Rect(0, CanvasWidth)
                   /\ \A x \in 0..(CanvasWidth - 1) : result.Static.Pix[x] # 0

\* an APNG of the default image and one more frame came out Static
C14_Witness ==
    /\ imageOut.called
    /\ imageIn.resp.body.contentType = "png"
    /\ DecodesAnimated(imageIn.resp.body)
    /\ Len(imageIn.resp.body.anim.Frames) = 2
    /\ SourceFrames(imageIn.resp.body) = 1
    /\ ~imageOut.result.err
    /\ imageOut.result.Static # Nil

-----------------------------------------------------------------------------
(* C19 *)

\* the response brought a PNG that apng.DecodeConfig and apng.DecodeAll accept
ApngDecoded(resp) ==
    /\ BodyRead(resp)
    /\ resp.body.contentType = "png"
    /\ resp.body.configOk
    /\ resp.body.animOk

\* the frames of an animation that are not the default image, in input order
NonDefault(animation) == SelectSeq(animation.Frames, LAMBDA f : ~f.IsDefault)

\* the colours the default images of an animation are drawn in
DefaultColours(animation) ==
    UNION {ApngColours(animation.Frames[i]) :
               i \in {j \in 1..Len(animation.Frames) : animation.Frames[j].IsDefault}}

(* C19: for a PNG the animated decoder accepts, fetchAndDecodeImage returns
   Animated exactly when two frames or more are not the default image; the
   animation then has one frame and one delay per non-default frame, output
   frame k shows the opaque pixels of the k-th non-default frame, the first
   output frame is the first non-default frame on the empty canvas, no
   output frame shows a colour of the default image, and the whole
   animation equals the one composited from the non-default frames alone. *)
C19_ApngDefaultExcluded ==
    (imageOut.called /\ ApngDecoded(imageIn.resp)) =>
        LET animation == imageIn.resp.body.anim
            real == NonDefault(animation)
            result == imageOut.result
            Frames == result.Animated.Frames
        IN  /\ (result.Animated # Nil) <=> (Len(real) >= 2)
            /\ result.Animated # Nil =>
                /\ Len(Frames) = Len(real)
                /\ Len(result.Animated.FrameDelays) = Len(real)
                /\ \A k \in 1..Len(real) : \A x \in 0..(CanvasWidth - 1) :
                       /\ Frames[k].Pix[x] \notin DefaultColours(animation)
                       /\ (ApngInRect(real[k], x) /\ ApngPixel(real[k], x) # 0)
                              => Frames[k].Pix[x] = ApngPixel(real[k], x)
                /\ \A x \in 0..(CanvasWidth - 1) :
                       Frames[1].Pix[x] =
                           ApngComposite(NewRGBA(Rect(0, CanvasWidth)), real[1], x)
                /\ result.Animated =
                       preRenderApngAnimation([Frames |-> real],
                                              imageIn.resp.body.width)

\* an opaque default image came first, two frames followed, the first of
\* them restoring the previous canvas, and the result is Animated
C19_Witness ==
    /\ imageOut.called
    /\ ApngDecoded(imageIn.resp)
    /\ Len(imageIn.resp.body.anim.Frames) = 3
    /\ imageIn.resp.body.anim.Frames[1].IsDefault
    /\ ApngColours(imageIn.resp.body.anim.Frames[1]) # {}
    /\ imageIn.resp.body.anim.Frames[2].DisposeOp = DISPOSE_OP_PREVIOUS
    /\ imageOut.result.Animated # Nil
    /\ Len(imageOut.result.Animated.Frames) = 2

-----------------------------------------------------------------------------
(* C20 *)

\* ms is the delay num / den seconds rounded to the millisecond
RoundedMilliseconds(ms, num, den) ==
    /\ 2 * (ms * den - 1000 * num) <= den
    /\ 2 * (1000 * num - ms * den) <= den

\* the delay of an APNG frame is ms milliseconds
ApngDelayIs(frame, ms) ==
    RoundedMilliseconds(ms, frame.DelayNumerator,
                        IF frame.DelayDenominator = 0 THEN 100
                        ELSE frame.DelayDenominator)

(* C20: every animation a compositor returns has as many delays as frames.
   For a GIF, frame i shows the opaque pixels of sub-image i and delay i is
   the delay of sub-image i, in milliseconds; for an APNG, frame k shows the
   opaque pixels of the k-th frame that is not the default image and delay k
   is that frame's delay, in milliseconds; for a WebP, frame i is image i
   and delay i is the delay the decoder gives for it. *)
C20_FramesAndDelaysParallel ==
    imageOut.called =>
        LET anim == imageOut.anim
        IN  /\ Len(anim.FrameDelays) = Len(anim.Frames)
            /\ "gif" \in DOMAIN imageIn =>
                   /\ Len(anim.Frames) = Len(imageIn.gif.Image)
                   /\ \A i \in 1..Len(anim.Frames) :
                          /\ anim.FrameDelays[i] = 10 * imageIn.gif.Delay[i]
                          /\ \A x \in 0..(CanvasWidth - 1) :
                                 GifOpaqueAt(imageIn.gif, i, x) =>
                                     anim.Frames[i].Pix[x] = i
            /\ "apng" \in DOMAIN imageIn =>
                   LET real == NonDefault(imageIn.apng)
                   IN  /\ Len(anim.Frames) = Len(real)
                       /\ \A k \in 1..Len(anim.Frames) :
                              /\ ApngDelayIs(real[k], anim.FrameDelays[k])
                              /\ \A x \in 0..(CanvasWidth - 1) :
                                     (ApngInRect(real[k], x) /\ ApngPixel(real[k], x) # 0)
                                         => anim.Frames[k].Pix[x] = ApngPixel(real[k], x)
            /\ "webp" \in DOMAIN imageIn =>
                   /\ Len(anim.Frames) = Len(imageIn.webp.Image)
                   /\ \A i \in 1..Len(anim.Frames) :
                          /\ anim.FrameDelays[i] = imageIn.webp.Delay[i]
                          /\ anim.Frames[i].Pix = imageIn.webp.Image[i].Pix

\* a WebP whose frames have different delays was composited
C20_Witness ==
    /\ imageOut.called
    /\ "webp" \in DOMAIN imageIn
    /\ Len(imageOut.anim.Frames) >= 2
    /\ imageOut.anim.FrameDelays[1] # imageOut.anim.FrameDelays[2]

-----------------------------------------------------------------------------
(* C21: an animated GIF of n sub-images comes out of fetchAndDecodeImage as
   an Animated asset of n frames and n delays, and delay i is the delay of
   sub-image i, given in hundredths of a second, multiplied by 10. *)
C21_GifDelaysInMilliseconds ==
    imageOut.called =>
        LET g == imageIn.resp.body.anim
            result == imageOut.result
        IN  /\ ~result.err
            /\ result.Animated # Nil
            /\ Len(result.Animated.Frames) = Len(g.Image)
            /\ Len(result.Animated.FrameDelays) = Len(g.Image)
            /\ \A i \in 1..Len(g.Image) :
                   result.Animated.FrameDelays[i] = 10 * g.Delay[i]

\* a GIF of five sub-images with a short and the longest delay among them
\* came out as five frames
C21_Witness ==
    /\ imageOut.called
    /\ Len(imageIn.resp.body.anim.Image) = 5
    /\ imageIn.resp.body.anim.Delay[1] = 7
    /\ imageIn.resp.body.anim.Delay[5] = 65535
    /\ imageOut.result.Animated # Nil
    /\ Len(imageOut.result.Animated.Frames) = 5
    /\ imageOut.result.Animated.FrameDelays[5] = 655350

-----------------------------------------------------------------------------
(* C22 *)

\* the frames of the played APNG that are not the default image
PlayedFrames == NonDefault(imageIn.resp.body.anim)

\* the denominator of the delay of frame, 100 when it is given as 0
DelayDen(frame) ==
    IF frame.DelayDenominator = 0 THEN 100 ELSE frame.DelayDenominator

\* 1000 * num / den rounded to the nearest integer, the half away from zero
HalfAwayFromZero(frame) ==
    (2 * 1000 * frame.DelayNumerator + DelayDen(frame)) \div (2 * DelayDen(frame))

\* ms is an integer nearest to 1000 * num / den
NearestMillisecond(frame, ms) ==
    /\ 2 * (ms * DelayDen(frame) - 1000 * frame.DelayNumerator) <= DelayDen(frame)
    /\ 2 * (1000 * frame.DelayNumerator - ms * DelayDen(frame)) <= DelayDen(frame)

\* the ticks the played object stayed on its first frame: the tick that
\* left it is the first one history shows another frame for
LeftFirstFrame == \E i \in 1..Len(history) : history[i] # 0

TicksOnFirstFrame == CHOOSE i \in 1..Len(history) :
                         history[i] # 0 /\ \A j \in 1..(i - 1) : history[j] = 0

\* the delay Update plays a recorded delay for
PlayedFor(ms) == IF ms = 0 THEN 100 ELSE ms

\* the first frame, entered with nothing accumulated, is left by the first
\* tick at which the ticks played, 1000 / 60 ms each, make up its delay
PlayedInMilliseconds ==
    LeftFirstFrame =>
        LET ms == PlayedFor(objects[1].animatedImage.FrameDelays[1])
        IN  /\ 60 * ms <= 1000 * TicksOnFirstFrame
            /\ 1000 * (TicksOnFirstFrame - 1) < 60 * ms

(* C22 as stated: every delay recorded for an APNG frame is 1000 * num / den
   rounded to the nearest integer, the half away from zero, and it is played
   as milliseconds. *)
C22_RoundedHalfAwayFromZero ==
    imageOut.called =>
        /\ \A k \in 1..Len(PlayedFrames) :
               objects[1].animatedImage.FrameDelays[k]
                   = HalfAwayFromZero(PlayedFrames[k])
        /\ PlayedInMilliseconds

(* C22, amended: every delay recorded for a frame of an APNG that is not the
   default image is an integer nearest to 1000 * num / den, num / den being
   the frame's delay in seconds (either neighbour when 1000 * num / den
   falls halfway between two integers), and Update plays it as that many
   milliseconds: the object leaves its first frame at the first tick at
   which the ticks played, 1000 / 60 ms each, reach the recorded delay. *)
C22_ApngDelaysInMilliseconds ==
    imageOut.called =>
        /\ Len(objects[1].animatedImage.FrameDelays) = Len(PlayedFrames)
        /\ \A k \in 1..Len(PlayedFrames) :
               NearestMillisecond(PlayedFrames[k],
                                  objects[1].animatedImage.FrameDelays[k])
        /\ PlayedInMilliseconds

\* a first frame of 323 / 80 s was recorded and played to its end
C22_Witness ==
    /\ imageOut.called
    /\ PlayedFrames[1].DelayNumerator = 323
    /\ PlayedFrames[1].DelayDenominator = 80
    /\ objects[1].animatedImage.FrameDelays[1] \in {4037, 4038}
    /\ LeftFirstFrame
    /\ TicksOnFirstFrame > 200

-----------------------------------------------------------------------------
(* C23 *)

\* the status is one of the success class
Is2xx(status) == 200 <= status /\ status <= 299

\* the fetch of load t was answered with a status outside the success class
RefusedFetch(t) ==
    /\ t \in DOMAIN history
    /\ history[t] # 0
    /\ ~Is2xx(history[t])

(* C23: when the fetch of a load is answered with a status that is not 2xx,
   fetchAndDecodeImage returns an error and no image, although the body of
   the response is an image the decoders accept, and the load is over with
   the text fallback: the name without its colons is the object's fallback
   text, the object has no image, and the load has made no Set. *)
C23_RefusedFetchFallsBack ==
    \A t \in Tasks :
        RefusedFetch(t) =>
            /\ DecodeData(BodyAt(task[t].urlToFetch)).err = FALSE
            /\ task[t].decoded = DecodeFailed
            /\ task[t].pc = "Done"
            /\ objects[t].fallbackText = Trim(task[t].reaction.Name, {Colon})
            /\ objects[t].image = Nil
            /\ objects[t].animatedImage = Nil
            /\ calls[t].Set = <<>>
            /\ Len(calls[t].fetchAndDecodeImage) = 1

\* a load of ":a:" with the URL of a GIF was answered 500 and shows "a"
C23_Witness ==
    \E t \in Tasks :
        /\ RefusedFetch(t)
        /\ history[t] = 500
        /\ task[t].reaction = [Name |-> CustomA, URL |-> "https://u2/a.gif"]
        /\ task[t].pc = "Done"
        /\ objects[t].fallbackText = <<97>>

-----------------------------------------------------------------------------
(* C24 *)

\* the color type the header of the stream declares
DeclaredColorType(chunks) == chunks[1].data[10]

\* the chunks of a stream that are not tRNS chunks, in their order
WithoutTRNS(chunks) == SelectSeq(chunks, LAMBDA c : c.type # tRNS)

\* the types of the chunks found in the bytes data from offset on, walking
\* from chunk to chunk by the lengths
RECURSIVE ChunkTypesFrom(_, _)
ChunkTypesFrom(data, offset) ==
    IF offset + 12 > Len(data) THEN <<>>
    ELSE <<Slice(data, offset + 4, offset + 8)>>
             \o ChunkTypesFrom(data,
                               offset + 12 + Uint32(Slice(data, offset, offset + 4)))

(* C24: for every well-formed PNG stream whose IHDR declares color type 6,
   stripTRNSFromRGBA succeeds, its output holds no tRNS chunk, and the
   output is the signature followed by the bytes of every other chunk of
   the input, unchanged and in the order of the input. *)
C24_TRNSStripped ==
    (imageOut.called /\ imageIn.wellFormed
         /\ DeclaredColorType(imageIn.chunks) = 6) =>
        LET out == imageOut.result.out
            types == ChunkTypesFrom(out, 8)
        IN  /\ ~imageOut.result.err
            /\ \A i \in 1..Len(types) : types[i] # tRNS
            /\ Len(types) = Len(WithoutTRNS(imageIn.chunks))
            /\ out = PNGSignature \o EncodeChunks(WithoutTRNS(imageIn.chunks))

\* a stream of color type 6 with a tRNS chunk between image data and a
\* text that holds the letters "tRNS" has been stripped
C24_Witness ==
    /\ imageOut.called
    /\ imageIn.wellFormed
    /\ DeclaredColorType(imageIn.chunks) = 6
    /\ Len(imageIn.chunks) = 5
    /\ imageIn.chunks[2].type = IDAT
    /\ imageIn.chunks[3].type = tRNS
    /\ imageIn.chunks[3].data # <<>>
    /\ imageIn.chunks[4].type = tEXt
    /\ Len(imageOut.result.out) < Len(imageIn.data)

\* the asset state of the object o
AssetState(o) ==
    [image |-> o.image, animatedImage |-> o.animatedImage,
     fallbackText |-> o.fallbackText]

\* the asset state of an object nothing was assigned to
Unassigned == [image |-> Nil, animatedImage |-> Nil, fallbackText |-> <<>>]

\* the fields in which two asset states differ
FieldsWritten(before, after) ==
    {f \in {"image", "animatedImage", "fallbackText"} : before[f] # after[f]}

\* the asset state of every finished load is one assignment away from
\* Unassigned, and that of every unfinished load is Unassigned
WrittenWhenDone ==
    \A t \in Tasks :
        IF task[t].pc = "Done"
        THEN Cardinality(FieldsWritten(Unassigned, AssetState(objects[t]))) = 1
        ELSE AssetState(objects[t]) = Unassigned

(* C25: the asset state of a display object (image, animatedImage,
   fallbackText) changes only in a step of the object's own load task, the
   step in which that task finishes, and in exactly one of the three fields;
   a finished task, the steps of the other tasks, Update and Draw leave it
   as it is, and Update hands every new object over unassigned. *)
C25_WrittenOnceByOwnTask ==
    [][/\ \A t \in Tasks :
             LET before == AssetState(objects[t])
                 after == AssetState(objects'[t])
             IN  /\ before # after =>
                       /\ LoadStepOf(t)
                       /\ task[t].pc # "Done"
                       /\ task'[t].pc = "Done"
                 /\ (task[t].pc # "Done" /\ task'[t].pc = "Done") =>
                       Cardinality(FieldsWritten(before, after)) = 1
       /\ WrittenWhenDone'
       /\ \A t \in DOMAIN task' \ Tasks :
             AssetState(objects'[t]) = Unassigned]_vars

\* a screen drawn with one object playing the animation its task assigned
\* and another showing its fallback text
C25_Witness ==
    /\ imageOut.called
    /\ \E t, u \in Tasks :
          /\ task[t].pc = "Done" /\ task[u].pc = "Done"
          /\ objects[t].animatedImage # Nil
          /\ objects[t].frameTimeAccumulator # Float64(0)
          /\ objects[u].fallbackText # <<>>

\* the step is the one in which the load task t ends in an error of the
\* resolver, of the fetch or of the decoders
FailsIn(t) ==
    /\ task[t].pc # "Done"
    /\ task'[t].pc = "Done"
    /\ \/ task'[t].queryErr
       \/ task'[t].decoded.err

\* the load task u is not held up: where it asks for the cache lock it is
\* given it, or a load task still running holds the lock against it
NotHeldUp(u) ==
    LET running(h) == h \in Tasks \ {u} /\ task[h].pc # "Done"
    IN  /\ task[u].pc = "Get" =>
              \/ ENABLED GetRLock(u)
              \/ running(cacheMutex.writer)
        /\ task[u].pc = "Set" =>
              \/ ENABLED SetLock(u)
              \/ running(cacheMutex.writer)
              \/ \E h \in cacheMutex.readers : running(h)

(* C26: the step in which a load task ends in a resolver, fetch or decode
   error writes the trimmed name to the fallback text of that task's object
   and changes nothing else: not the cache, not the cache lock, not another
   object or load task, not what the render loop keeps (the calls of Update
   made and the screen drawn); the failed task holds no lock, and with
   failed tasks about a load task that asks for the cache lock is given it
   unless a task still running holds it. *)
C26_FailureIsolation ==
    [][/\ \A t \in Tasks :
             FailsIn(t) =>
                /\ objects' = [objects EXCEPT ![t].fallbackText =
                                   Trim(task[t].reaction.Name, {Colon})]
                /\ \A u \in Tasks \ {t} : task'[u] = task[u]
                /\ DOMAIN task' = DOMAIN task
                /\ cache' = cache
                /\ cacheMutex' = cacheMutex
                /\ t \notin cacheMutex.readers
                /\ cacheMutex.writer # t
                /\ history' = history
                /\ imageOut' = imageOut
       /\ (\E t \in Tasks : task[t].pc = "Done" /\ objects[t].fallbackText # <<>>) =>
             \A u \in Tasks : NotHeldUp(u)]_vars

\* one load failed in its fetch, a load started after it went on to assign
\* its animation, and the screen was drawn with the text of the one and the
\* image of the other
C26_Witness ==
    /\ imageOut.called
    /\ \E t, u \in Tasks :
          /\ task[t].pc = "Done" /\ task[t].decoded.err
          /\ objects[t].fallbackText # <<>>
          /\ task[u].pc = "Done" /\ ~task[u].decoded.err /\ ~task[u].queryErr
          /\ objects[u].animatedImage # Nil
          /\ t < u
          /\ imageOut.screen[t].draws = "text"
          /\ imageOut.screen[u].draws = "image"

(* C27: every load task that was started finishes, whether or not the asset
   source answers the request of fetchAndDecodeImage. *)
C27_EveryLoadTerminates ==
    \A t \in 1..MaxEvents :
        (t \in Tasks) ~> (t \in Tasks /\ task[t].pc = "Done")

\* the step is a call of Update
UpdateStep == Len(history') = Len(history) + 1

\* the step is a call of Update that takes an event from reactionChan
TakesEvent == UpdateStep /\ history'[Len(history')]

\* the step is a call of Draw
DrawStep == ~imageOut.called /\ imageOut'.called

\* the step starts exactly one load task, for a new object, and the task
\* has called nothing yet
StartsOneTask ==
    /\ Len(task') = Len(task) + 1
    /\ Len(objects') = Len(objects) + 1
    /\ Len(calls') = Len(calls) + 1
    /\ task'[Len(task')].pc = "Get"
    /\ task'[Len(task')].reaction.Name = objects'[Len(objects')].reactionName
    /\ calls'[Len(calls')] = NoCalls

\* the step leaves the load tasks that exist, and their calls, as they are
LeavesTasksAlone == \A t \in Tasks : task'[t] = task[t] /\ calls'[t] = calls[t]

\* resolver, fetch and decode are called in the steps of the load tasks
\* only, and Update and Draw leave the load tasks as they are
OffRenderPath ==
    /\ \A t \in Tasks : calls'[t] # calls[t] => LoadStepOf(t)
    /\ DrawStep => task' = task /\ calls' = calls
    /\ UpdateStep => LeavesTasksAlone
    /\ ~UpdateStep => DOMAIN task' = DOMAIN task

(* C28 as the claim states it: every call of Update that takes an event
   starts exactly one load task; resolver, fetch and decode are called in
   the steps of the load tasks only. *)
C28_OneTaskPerEvent ==
    [][/\ OffRenderPath
       /\ TakesEvent => StartsOneTask
       /\ (UpdateStep /\ ~TakesEvent) => task' = task /\ calls' = calls]_vars

(* C28: every call of Update that takes an event while fewer than maxObjects
   display objects are live starts exactly one load task, for the object it
   creates; a call that takes an event at the cap, or no event, starts none;
   resolver, fetch and decode are called in the steps of the load tasks
   only: Update and Draw leave the load tasks and their calls as they
   are. *)
C28_OneTaskPerEventBelowCap ==
    [][/\ OffRenderPath
       /\ (TakesEvent /\ Len(objects) < maxObjects) => StartsOneTask
       /\ (UpdateStep /\ ~(TakesEvent /\ Len(objects) < maxObjects)) =>
             /\ task' = task
             /\ calls' = calls
             /\ Len(objects') = Len(objects)]_vars

\* three calls of Update took an event each: two started a load task, which
\* has fetched since, and the third, at the cap, started none; the screen
\* was drawn
C28_Witness ==
    /\ Len(history) = 3
    /\ \A i \in 1..3 : history[i]
    /\ Len(task) = maxObjects
    /\ \A t \in {maxObjects - 1, maxObjects} :
          task[t].pc = "Done" /\ calls[t].fetchAndDecodeImage # <<>>
    /\ imageOut.called

\* what the asset behind a handle is, whoever allocated it: nothing, a
\* static image, or the frames and delays of an animation
Structure(asset) ==
    IF asset = Nil THEN [variant |-> "none"]
    ELSE LET content == DecodeData(BodyAt(asset.url))
         IN  IF asset.type = "Animated"
             THEN [variant |-> "Animated",
                   frames |-> content.Animated.Frames,
                   delays |-> content.Animated.FrameDelays]
             ELSE [variant |-> "Static", image |-> content.Static]

\* the result of a load: the errors, and the structure of the asset
ResultOf(queryErr, decoded) ==
    [queryErr |-> queryErr, err |-> decoded.err,
     asset |-> Structure(DecodedValue(decoded))]

\* the pipeline on its own for the event reaction, with nothing cached and
\* no other load: the resolver answered inputs.api, the source inputs.resp
PipelineAlone(reaction, inputs) ==
    LET asksResolver == reaction.URL = "" /\ IsCustomName(reaction.Name)
        q == QueryEmojiAPI(Trim(reaction.Name, {Colon}), inputs.api)
        url == IF reaction.URL # "" THEN reaction.URL
               ELSE IF asksResolver THEN q.url
               ELSE emojiToTwemojiURL(reaction.Name)
    IN  IF asksResolver /\ q.err
        THEN ResultOf(TRUE, DecodedImage(Nil, Nil))
        ELSE ResultOf(FALSE, fetchAndDecodeImage(url, inputs.resp, 0))

\* the load t missed the cache and is through resolver, fetch and decode
RanPipeline(t) ==
    /\ t \in DOMAIN history
    /\ ~task[t].exists
    /\ task[t].queryErr \/ history[t].resp # NotCalled

(* C29: two loads of the same Name that both missed the cache and were given
   the same resolver answer and the same response have structurally equal
   results: the same errors, the same variant, equal frames and equal
   delays; and the result of every such load is the one the pipeline gives
   on its own for these inputs, whatever is cached under other names and
   whatever the other loads do. *)
C29_PipelineDeterminism ==
    /\ \A t, u \in Tasks :
          (/\ RanPipeline(t)
           /\ RanPipeline(u)
           /\ task[t].reaction.Name = task[u].reaction.Name
           /\ history[t] = history[u]) =>
              ResultOf(task[t].queryErr, task[t].decoded)
                 = ResultOf(task[u].queryErr, task[u].decoded)
    /\ \A t \in Tasks :
          RanPipeline(t) =>
              ResultOf(task[t].queryErr, task[t].decoded)
                 = PipelineAlone(task[t].reaction, history[t])

\* two loads of ":a:" missed the cache, were both given the URL of the WebP
\* animation by the resolver and its bytes by the source, and decoded it
C29_Witness ==
    \E t, u \in Tasks :
        /\ t # u
        /\ RanPipeline(t) /\ RanPipeline(u)
        /\ task[t].reaction.Name = CustomA /\ task[u].reaction.Name = CustomA
        /\ history[t] = history[u]
        /\ task[t].decoded.Animated # Nil
        /\ task[t].decoded.Animated # task[u].decoded.Animated
        /\ Len(Structure(task[u].decoded.Animated).frames) = 2

\* the answer api is not a success with a url: the config is missing, the
\* request fails, the status is outside the success class, the body does
\* not decode, or its url field is empty
NoURLIn(api) ==
    \/ ~api.configLoaded
    \/ api.transportErr
    \/ ~Is2xx(api.status)
    \/ ~api.jsonOk
    \/ api.url = ""

(* C30: QueryEmojiAPI returns an error, and no URL, when the config is
   missing, the request fails, the status is outside the success class, the
   body does not decode or its url field is empty; it never returns an
   empty URL with a nil error; and the load fetches only after a nil error,
   the URL the API gave, which is not empty. *)
C30_ResolverContract ==
    imageOut.called =>
        LET q == imageOut.result
        IN  /\ NoURLIn(imageIn) => q.err
            /\ q.err => q.url = ""
            /\ ~q.err => q.url = imageIn.url /\ q.url # ""
            /\ \A t \in Tasks :
                  /\ q.err =>
                        /\ task[t].pc = "Done"
                        /\ calls[t].fetchAndDecodeImage = <<>>
                        /\ objects[t].fallbackText = Trim(CustomA, {Colon})
                  /\ \A i \in 1..Len(calls[t].fetchAndDecodeImage) :
                        /\ calls[t].fetchAndDecodeImage[i] # ""
                        /\ calls[t].fetchAndDecodeImage[i] = q.url

\* the API answered 200 with a JSON body whose url field is empty:
\* QueryEmojiAPI returned an error and the load fell back without a fetch
C30_Witness ==
    /\ imageOut.called
    /\ imageIn.configLoaded /\ ~imageIn.transportErr
    /\ imageIn.status = StatusOK /\ imageIn.jsonOk /\ imageIn.url = ""
    /\ imageOut.result.err
    /\ \E t \in Tasks :
          task[t].pc = "Done" /\ calls[t].fetchAndDecodeImage = <<>>

-----------------------------------------------------------------------------
\* a call of Connect has met a read error
ReadFailed == \E g \in Connects : imageOut.connect[g] \in {"Sleep", "Returned"}

(* C31: after a read error of the feed the process keeps running, whatever
   the streaming server does, and at most one call of Connect is connected
   (subscribing or in its read loop) at a time. *)
C31_FeedNeverEndsProcess ==
    /\ ReadFailed => imageOut.running
    /\ Cardinality({g \in Connects :
                       imageOut.connect[g] \in {"Subscribe", "Read"}}) <= 1

-----------------------------------------------------------------------------
\* the body of a 200 response that was read in full
DecodedBody ==
    /\ imageOut.called
    /\ ~imageIn.resp.transportErr
    /\ imageIn.resp.status = StatusOK
    /\ ~imageIn.resp.readErr

\* the result is the picture of the static decoder, and no error
StaticInstead(result, data) ==
    /\ ~result.err
    /\ result.Animated = Nil
    /\ result.Static = CopyOf(data.still)

(* C32: in the PNG path, when apng.DecodeConfig accepts the stream and
   apng.DecodeAll fails, the result is the static decode of the stream with
   no error, and when the static decode fails too the error returned is the
   one of apng.DecodeAll; in the WebP path a failure of the animated decode
   is treated the same way, and an animation of one frame or none is decoded
   as a static WebP. *)
C32_AnimatedFailureFallsBackToStatic ==
    DecodedBody =>
        LET data == imageIn.resp.body
            result == imageOut.result
            animFailed == ~data.animOk /\ (data.contentType = "png" => data.configOk)
        IN  data.contentType \in {"png", "webp"} =>
              /\ (animFailed /\ data.staticOk) => StaticInstead(result, data)
              /\ (animFailed /\ ~data.staticOk) =>
                    result.err /\ result.which = "animated"
              /\ (data.contentType = "webp" /\ data.animOk
                     /\ Len(data.anim.Image) <= 1) =>
                    IF data.staticOk THEN StaticInstead(result, data)
                    ELSE result.err /\ result.which = "static"

\* a PNG whose config decodes, that apng.DecodeAll rejects and png.Decode
\* accepts, came out Static
C32_Witness ==
    /\ DecodedBody
    /\ imageIn.resp.body.contentType = "png"
    /\ imageIn.resp.body.configOk
    /\ ~imageIn.resp.body.animOk
    /\ imageIn.resp.body.staticOk
    /\ ~imageOut.result.err
    /\ imageOut.result.Static # Nil

-----------------------------------------------------------------------------
(* C33 *)

\* every reader of the PNG branch reads bytes
ReadsAll(bytes) ==
    /\ imageOut.reads # <<>>
    /\ \A i \in 1..Len(imageOut.reads) : imageOut.reads[i].bytes = bytes

\* C33: when stripTRNSFromRGBA returns an error the PNG branch goes on to
\* decode, and every decoder reads the original bytes; when it succeeds
\* every decoder reads the sanitised bytes
C33_SanitiserFailureTolerated ==
    imageOut.called =>
        LET clean == stripTRNSFromRGBA(imageIn.data)
        IN  IF clean.err THEN ReadsAll(imageIn.data) ELSE ReadsAll(clean.out)

\* the sanitiser failed and all three decoders read the body
C33_Witness ==
    /\ imageOut.called
    /\ stripTRNSFromRGBA(imageIn.data).err
    /\ Len(imageOut.reads) = 3

\* the sanitiser dropped a chunk and all three decoders read its output
C33_WitnessSanitised ==
    /\ imageOut.called
    /\ ~stripTRNSFromRGBA(imageIn.data).err
    /\ stripTRNSFromRGBA(imageIn.data).out # imageIn.data
    /\ Len(imageOut.reads) = 3

-----------------------------------------------------------------------------
(* C34 *)

\* the input is one stripTRNSFromRGBA has nothing to remove from
NothingToStrip ==
    \/ Len(imageIn.data) < 8
    \/ Slice(imageIn.data, 0, 8) # PNGSignature
    \/ imageIn.wellFormed /\ DeclaredColorType(imageIn.chunks) # 6

\* the output is the input for an input with nothing to strip, and it is
\* what the function makes of its own output
IdentityAndIdempotence ==
    (imageOut.called /\ imageOut.done) =>
        /\ NothingToStrip => ~imageOut.err /\ imageOut.out = imageIn.data
        /\ ~imageOut.err =>
               stripTRNSFromRGBA(imageOut.out) = [err |-> FALSE, out |-> imageOut.out]
        /\ [err |-> imageOut.err, out |-> imageOut.out]
               = stripTRNSFromRGBA(imageIn.data)

\* a pass of the loop that is followed by another leaves a greater offset
OffsetIncreases ==
    (imageOut.called /\ ~imageOut.done /\ ~imageOut'.done) =>
        imageOut'.offset > imageOut.offset

\* C34: stripTRNSFromRGBA returns its input for an input shorter than 8
\* bytes, one without the PNG signature, and a well-formed PNG whose IHDR
\* color type is not 6; on every input the offset grows with every pass of
\* the chunk loop and the function returns; applied to its own successful
\* output it returns the same bytes
C34_IdentityTerminationIdempotence ==
    /\ []IdentityAndIdempotence
    /\ [][OffsetIncreases]_vars
    /\ <>(imageOut.called /\ imageOut.done)

\* a greyscale stream with two tRNS chunks came back as it went in after
\* four passes of the loop
C34_Witness ==
    /\ imageOut.called
    /\ imageOut.done
    /\ imageIn.wellFormed
    /\ DeclaredColorType(imageIn.chunks) = 0
    /\ Len(imageIn.chunks) = 4
    /\ imageIn.chunks[2].type = tRNS
    /\ imageIn.chunks[3].type = tRNS
    /\ imageOut.passes = 4
    /\ imageOut.out = imageIn.data

-----------------------------------------------------------------------------
(* C35 *)

\* Draw has something to show for the object
Displayable(o) ==
    \/ o.image # Nil
    \/ o.animatedImage # Nil
    \/ o.fallbackText # <<>>

\* C35: when a load task has finished, its object has an image, an
\* animation or a fallbackText that is not empty, whatever the name of the
\* event, ":::" and the empty name included
C35_DisplayableAfterLoad ==
    \A t \in Tasks : Returned(t) => Displayable(objects[t])

-----------------------------------------------------------------------------
(* C36 *)

\* currentFrame indexes a frame and a delay of the animation of o
FrameInRange(o) ==
    o.animatedImage # Nil =>
        /\ 0 <= o.currentFrame
        /\ o.currentFrame < Len(o.animatedImage.Frames)
        /\ o.currentFrame < Len(o.animatedImage.FrameDelays)

\* a first frame recorded with the delay 0 is left by the sixth tick, the
\* first at which the ticks make up 100 ms
ZeroPlayedAsHundred ==
    (imageOut.called /\ LeftFirstFrame
         /\ objects[1].animatedImage.FrameDelays[1] = 0) =>
        TicksOnFirstFrame = 6

\* a tick leaves the object on its frame, or on the next one, which after
\* the last frame is frame 0
AdvancesByOne ==
    (imageOut.called /\ history' # history) =>
        \A i \in 1..Len(objects) :
            LET n == Len(objects[i].animatedImage.Frames)
                now == objects[i].currentFrame
                next == objects'[i].currentFrame
            IN  \/ next = now
                \/ now < n - 1 /\ next = now + 1
                \/ now = n - 1 /\ next = 0

\* C36: for every object with an animation, currentFrame is at least 0 and
\* below len(Frames) and len(FrameDelays) in every state; a tick advances
\* it by at most one frame, from the last frame to frame 0; a frame delay
\* of 0 is played as 100 ms
C36_FrameIndexSafety ==
    /\ [](\A i \in 1..Len(objects) : FrameInRange(objects[i]))
    /\ []ZeroPlayedAsHundred
    /\ [][AdvancesByOne]_vars

\* an animation whose first frame has the delay 0 is back on frame 0 after
\* its last frame
C36_Witness ==
    /\ imageOut.called
    /\ objects[1].animatedImage.FrameDelays[1] = 0
    /\ LeftFirstFrame
    /\ TicksOnFirstFrame = 6
    /\ objects[1].currentFrame = 0
    /\ history[Len(history)] = 0
    /\ history[Len(history) - 1] = Len(objects[1].animatedImage.Frames) - 1

-----------------------------------------------------------------------------
(* C37 *)

\* the next step of load task t assigns image or animatedImage of its
\* object: no lock is held and nothing is waited for
WritesNext(t) == ENABLED CacheHit(t) \/ ENABLED AssignDecoded(t)

\* the next step of the render loop is Draw, which reads image,
\* animatedImage and fallbackText of every object
ReadsNext == Len(history) > 0 /\ imageOut = NotCalled

\* C37: a write of a load task to image, animatedImage or fallbackText of
\* an object and a read of that field by Update or Draw are ordered by
\* synchronisation: in no state are a load task about to write and the
\* render loop about to read, with either free to go first
C37_NoUnsynchronisedSharing ==
    \A t \in Tasks : ~(WritesNext(t) /\ ReadsNext)

-----------------------------------------------------------------------------
(* C38 *)

\* what a call of Update does to the list of objects and to the load
\* tasks: one object and one task more for an event taken below the cap,
\* the same objects and tasks for an event taken at the cap and for a call
\* that found the channel empty
CappedSpawn ==
    UpdateStep =>
        /\ Len(history') = Len(history) + 1
        /\ IF TakesEvent /\ Len(objects) < maxObjects
           THEN /\ Len(objects') = Len(objects) + 1
                /\ Len(task') = Len(task) + 1
           ELSE /\ Len(objects') = Len(objects)
                /\ task' = task
                /\ calls' = calls

\* C38: there are never more than maxObjects objects; a call of Update
\* takes one event or, the channel being empty, none, and returns; an
\* event taken with maxObjects objects live makes no object and starts no
\* load task, an event taken below the cap makes exactly one object
C38_ObjectCap ==
    /\ [](Len(objects) <= maxObjects /\ Len(task) = Len(objects))
    /\ [][CappedSpawn]_vars

\* two events were taken below the cap and filled the list, and the event
\* the next call of Update took was discarded
C38_Witness ==
    /\ history = <<TRUE, TRUE, TRUE>>
    /\ Len(objects) = maxObjects
    /\ Len(task) = maxObjects

\* a call of Update that found the channel empty has returned, and the two
\* events taken after it filled the list
C38_WitnessEmptyChannel ==
    /\ history = <<FALSE, TRUE, TRUE>>
    /\ Len(objects) = maxObjects

-----------------------------------------------------------------------------
(* C39 *)

\* the step is a tick of Update with the object on the list
MovingStep ==
    /\ imageOut.called
    /\ objects # <<>>
    /\ objects' = <<>> \/ objects'[1].lifetime # objects[1].lifetime

\* what a tick does to the object: it is moved by its velocity and its
\* lifetime is one less; it leaves the list only with a lifetime below 0
\* and outside the window, and with a lifetime below 0 it stays only inside
\* and with the velocity it had, which is never zero
FlightRules ==
    MovingStep =>
        LET o == objects[1]
            outside == IsOutside(Moved(o), imageIn.w, imageIn.h)
        IN  IF objects' = <<>>
            THEN /\ o.lifetime - 1 < 0
                 /\ outside
                 /\ history' = Append(history, Moved(o))
            ELSE /\ Len(objects') = 1
                 /\ objects'[1].lifetime = o.lifetime - 1
                 /\ objects'[1].x = o.x + o.vx
                 /\ objects'[1].y = o.y + o.vy
                 /\ objects'[1].vx # 0 \/ objects'[1].vy # 0
                 /\ o.lifetime - 1 < 0 =>
                        /\ ~outside
                        /\ objects'[1].vx = o.vx
                        /\ objects'[1].vy = o.vy

\* C39: on every tick the lifetime of an object decreases by exactly 1; an
\* object whose lifetime is still 0 or more is not removed; once the
\* lifetime is below 0 the object no longer bounces, keeps its velocity,
\* which is not zero, and is removed at the first tick that finds it
\* completely outside the window; every spawned object leaves the list
\* after finitely many ticks, whether its load has completed or not
C39_EveryObjectRemoved ==
    /\ [][FlightRules]_vars
    /\ (objects # <<>>) ~> (objects = <<>>)

\* an object whose load never completed flew on after its lifetime ran out
\* and has left the list
C39_Witness ==
    /\ objects = <<>>
    /\ Len(history) = 1
    /\ ~history[1].loaded
    /\ history[1].lifetime < 0 - 1
    /\ IsOutside(history[1], imageIn.w, imageIn.h)

====
